---- MODULE Spec2Model ----
(***************************************************************************)
(* Model of gsox_vs_benchmarks.py: the analytics helpers (drawdown,        *)
(* rolling_beta, rolling_period_return, compute_pairwise_metrics) and the  *)
(* panel pipeline of main() (skip missing tickers, concat, de-duplicate,   *)
(* ffill/bfill, dropna, rebase, pct_change, metrics, drawdowns).           *)
(*                                                                         *)
(* Numbers.  A float64 is modelled as a pair <<n, d>>: a normalised exact  *)
(* rational n/d when d > 0, and the IEEE specials when d = 0: <<0,0>> is   *)
(* NaN, <<1,0>> is +inf, <<-1,0>> is -inf.  Arithmetic follows IEEE rules  *)
(* for the specials (0/0 = NaN, x/0 = +-inf, inf-inf = NaN, 0*inf = NaN).  *)
(* Rounding and the sign of zero are not modelled.                         *)
(*                                                                         *)
(* Tables.  A pandas Series is a sequence of floats (positions 1..n); a    *)
(* DataFrame is a record [index |-> sequence of dates, cols |-> function   *)
(* from column name to Series].                                            *)
(*                                                                         *)
(* A rolling correlation is a quotient by a square root; it is carried as  *)
(* its signed square sign(c) * c^2, which is rational, is NaN or +-inf     *)
(* exactly when c is, and lies in [-1, 1] exactly when c does.             *)
(***************************************************************************)
EXTENDS Integers, Sequences, FiniteSets, TLC

\* ------------------------------------------------------------------ floats

NaN == <<0, 0>>
PosInf == <<1, 0>>
NegInf == <<-1, 0>>

Abs(n) == IF n < 0 THEN -n ELSE n
Sign(n) == IF n < 0 THEN -1 ELSE IF n > 0 THEN 1 ELSE 0
Max2(a, b) == IF a >= b THEN a ELSE b

RECURSIVE GCD(_, _)
GCD(a, b) == IF b = 0 THEN a ELSE GCD(b, a % b)

Reduce(n, d, g) ==
    IF d < 0 THEN <<(-n) \div g, (-d) \div g>> ELSE <<n \div g, d \div g>>

\* The float n/d, d # 0, in lowest terms with a positive denominator.
Norm(n, d) == Reduce(n, d, GCD(Abs(n), Abs(d)))

F(n) == <<n, 1>>
IsNaN(a) == a = NaN
IsInf(a) == a[2] = 0 /\ a[1] # 0
IsFinite(a) == a[2] > 0
\* pd.notna: an infinity is a value, only NaN is missing
NotNa(a) == a # NaN

FNeg(a) == <<-a[1], a[2]>>

FAdd(a, b) ==
    IF IsNaN(a) \/ IsNaN(b) THEN NaN
    ELSE IF IsInf(a) THEN (IF IsInf(b) /\ b # a THEN NaN ELSE a)
    ELSE IF IsInf(b) THEN b
    ELSE Norm(a[1] * b[2] + b[1] * a[2], a[2] * b[2])

FSub(a, b) == FAdd(a, FNeg(b))

FMul(a, b) ==
    IF IsNaN(a) \/ IsNaN(b) THEN NaN
    ELSE IF IsInf(a) \/ IsInf(b)
         THEN (IF a[1] = 0 \/ b[1] = 0 THEN NaN ELSE <<Sign(a[1]) * Sign(b[1]), 0>>)
    ELSE Norm(a[1] * b[1], a[2] * b[2])

Sq(a) == FMul(a, a)

\* A division that yields 0 on a zero divisor instead of NaN or an infinity.
FDivZeroSafe(a, b) ==
    IF IsNaN(a) \/ IsNaN(b) THEN NaN
    ELSE IF IsInf(b) THEN (IF IsInf(a) THEN NaN ELSE F(0))
    ELSE IF IsInf(a) THEN (IF b[1] < 0 THEN FNeg(a) ELSE a)
    ELSE IF b[1] = 0 THEN F(0)
    ELSE Norm(a[1] * b[2], a[2] * b[1])

\* numpy true division: no fault on a zero divisor
FDiv(a, b) ==
    IF IsNaN(a) \/ IsNaN(b) THEN NaN
    ELSE IF IsInf(b) THEN (IF IsInf(a) THEN NaN ELSE F(0))
    ELSE IF IsInf(a) THEN (IF b[1] < 0 THEN FNeg(a) ELSE a)
    ELSE IF b[1] = 0 THEN (IF a[1] = 0 THEN NaN ELSE <<Sign(a[1]), 0>>)
    ELSE Norm(a[1] * b[2], a[2] * b[1])

\* a <= b on floats; false when either is NaN
FLeq(a, b) ==
    IF IsNaN(a) \/ IsNaN(b) THEN FALSE
    ELSE IF a = b THEN TRUE
    ELSE IF a = NegInf \/ b = PosInf THEN TRUE
    ELSE IF a = PosInf \/ b = NegInf THEN FALSE
    ELSE a[1] * b[2] <= b[1] * a[2]

FMax(a, b) == IF FLeq(a, b) THEN b ELSE a

\* ------------------------------------------------------------------ series

\* a function on 1..n as an explicit sequence
AsSeq(f) == f \o <<>>

RECURSIVE FSumTo(_, _)
FSumTo(s, k) == IF k = 0 THEN F(0) ELSE FAdd(FSumTo(s, k - 1), s[k])
FSum(s) == FSumTo(s, Len(s))

RECURSIVE FProdTo(_, _)
FProdTo(s, k) == IF k = 0 THEN F(1) ELSE FMul(FProdTo(s, k - 1), s[k])
\* np.prod
FProd(s) == FProdTo(s, Len(s))

\* pandas' rolling _prep_values: infinities are turned into NaN before a
\* window is evaluated
PrepValues(s) == AsSeq([i \in 1..Len(s) |-> IF IsInf(s[i]) THEN NaN ELSE s[i]])

\* the trailing window of s ending at position t: at most win observations
Window(s, t, win) == SubSeq(s, Max2(1, t - win + 1), t)

\* the non-missing observations of a window, in order
RECURSIVE Valid(_)
Valid(w) ==
    IF w = <<>> THEN <<>>
    ELSE IF NotNa(Head(w)) THEN <<Head(w)>> \o Valid(Tail(w))
    ELSE Valid(Tail(w))

Mean(v) == FDiv(FSum(v), F(Len(v)))

\* roll_mean over the observations v of a window, min_periods = win (the
\* default of a fixed window)
MeanOf(v, win) == IF Len(v) >= win /\ Len(v) > 0 THEN Mean(v) ELSE NaN

\* sum of squared deviations from the mean m
SumSqDevFrom(v, m) == FSum(AsSeq([i \in 1..Len(v) |-> Sq(FSub(v[i], m))]))
SumSqDev(v) == SumSqDevFrom(v, Mean(v))

\* The population variance (ddof = 0) in place of the sample variance.
VarOfPop(v, win) ==
    IF Len(v) >= win /\ Len(v) > 1 THEN FDiv(SumSqDev(v), F(Len(v))) ELSE NaN

\* roll_var over the observations v of a window: ddof = 1, NaN unless
\* nobs >= min_periods and nobs > ddof
VarOf(v, win) ==
    IF Len(v) >= win /\ Len(v) > 1 THEN FDiv(SumSqDev(v), F(Len(v) - 1)) ELSE NaN

\* The variance over a window one observation longer than the covariance's.
RollVarWider(s, t, win) == VarOf(Valid(PrepValues(Window(s, t, win + 1))), win)

\* Series.rolling(win).var() at position t
RollVar(s, t, win) == VarOf(Valid(PrepValues(Window(s, t, win))), win)

\* pandas' prep_binary: X = a + 0*b, so X is NaN wherever either is NaN or inf
PrepBinary(a, b) == AsSeq([i \in 1..Len(a) |-> FAdd(a[i], FMul(F(0), b[i]))])

Products(X, Y) == AsSeq([i \in 1..Len(X) |-> FMul(X[i], Y[i])])

\* The covariance without the n / (n - ddof) correction.
CovFormulaBiased(mean_x_y, mean_x, mean_y, n) ==
    FSub(mean_x_y, FMul(mean_x, mean_y))

\* (E[xy] - E[x]E[y]) * n / (n - ddof), ddof = 1
CovFormula(mean_x_y, mean_x, mean_y, n) ==
    FMul(FSub(mean_x_y, FMul(mean_x, mean_y)), FDiv(n, FSub(n, F(1))))

\* rolling cov over one window of the pairwise-complete X and Y; n is
\* counted with min_periods = 0
CovXY(X, Y, win) ==
    CovFormula(MeanOf(Valid(Products(X, Y)), win), MeanOf(Valid(X), win),
               MeanOf(Valid(Y), win), F(Len(Valid(Products(X, Y)))))

\* Series.rolling(win).cov(other) at position t
RollCov(a, b, t, win) ==
    CovXY(PrepValues(PrepBinary(Window(a, t, win), Window(b, t, win))),
          PrepValues(PrepBinary(Window(b, t, win), Window(a, t, win))), win)

\* numerator / sqrt(den2), carried as its signed square
SignedSqRatio(num, den2) ==
    IF IsNaN(num) \/ IsNaN(den2) THEN NaN
    ELSE IF den2[1] = 0 THEN (IF num[1] = 0 THEN NaN ELSE <<Sign(num[1]), 0>>)
    ELSE FMul(F(Sign(num[1])), FDiv(Sq(num), den2))

\* rolling corr over one window: cov / sqrt(var_x * var_y)
CorrXY(X, Y, win) ==
    SignedSqRatio(CovXY(X, Y, win), FMul(VarOf(Valid(X), win), VarOf(Valid(Y), win)))

\* Series.rolling(win).corr(other) at position t
RollCorr(a, b, t, win) ==
    CorrXY(PrepValues(PrepBinary(Window(a, t, win), Window(b, t, win))),
           PrepValues(PrepBinary(Window(b, t, win), Window(a, t, win))), win)

\* The running minimum in place of the running maximum.
CumMinStep(prev, v) ==
    IF IsNaN(v) THEN prev ELSE IF IsNaN(prev) THEN v
    ELSE IF FLeq(prev, v) THEN prev ELSE v

CumMaxStep(prev, v) ==
    IF IsNaN(v) THEN prev ELSE IF IsNaN(prev) THEN v ELSE FMax(prev, v)

RECURSIVE CumMaxAt(_, _)
CumMaxAt(s, t) == IF t = 0 THEN NaN ELSE CumMaxStep(CumMaxAt(s, t - 1), s[t])

\* Series.cummax(): NaN stays NaN and is skipped by the running maximum
cummax(s) == AsSeq([t \in 1..Len(s) |-> IF IsNaN(s[t]) THEN NaN ELSE CumMaxAt(s, t)])

\* ------------------------------------------------------- analytics utils

DrawdownOf(levels, roll_max) ==
    AsSeq([t \in 1..Len(levels) |-> FSub(FDiv(levels[t], roll_max[t]), F(1))])

\* The drawdown from the first level instead of the running maximum.
drawdown_from_start(levels) ==
    DrawdownOf(levels, AsSeq([t \in 1..Len(levels) |-> levels[1]]))

drawdown(levels) == DrawdownOf(levels, cummax(levels))

rolling_beta(y_ret, x_ret, win) ==
    AsSeq([t \in 1..Len(y_ret) |->
            FDiv(RollCov(y_ret, x_ret, t, win), RollVar(x_ret, t, win))])

\* The product applied to partial windows too (min_periods = 1).
ApplyProdMin1(g, win) == IF Len(Valid(g)) >= 1 THEN FProd(Valid(g)) ELSE NaN

\* rolling(win).apply(np.prod, raw=True) on one window g of 1 + returns: the
\* function is applied only to a window holding win non-missing observations
ApplyProd(g, win) ==
    IF Len(Valid(g)) >= win THEN FProd(g) ELSE NaN

OnePlus(s) == AsSeq([i \in 1..Len(s) |-> FAdd(F(1), s[i])])

\* The returns of the window summed instead of compounded.
rolling_period_return_sum(returns, win) ==
    AsSeq([t \in 1..Len(returns) |->
            IF t >= win THEN FSum(Window(returns, t, win)) ELSE NaN])

rolling_period_return(returns, win) ==
    AsSeq([t \in 1..Len(returns) |->
            FSub(ApplyProd(PrepValues(OnePlus(Window(returns, t, win))), win), F(1))])

rolling_corr(y_ret, x_ret, win) ==
    AsSeq([t \in 1..Len(y_ret) |-> RollCorr(y_ret, x_ret, t, win)])

\* -------------------------------------------------------------- DataFrames

\* the elements of a set of positions, ascending
Ascending(K) ==
    AsSeq([j \in 1..Cardinality(K) |->
            CHOOSE p \in K : Cardinality({q \in K : q < p}) = j - 1])

DataFrame(index, cols) == [index |-> index, cols |-> cols]

Columns(df) == DOMAIN df.cols

\* the rows of df at the positions ps, in that order
TakeAt(df, ps) ==
    DataFrame(AsSeq([j \in 1..Len(ps) |-> df.index[ps[j]]]),
              [c \in Columns(df) |-> AsSeq([j \in 1..Len(ps) |-> df.cols[c][ps[j]]])])

TakeRows(df, K) == TakeAt(df, Ascending(K))

\* dropna(how="any") where the source has how="all"
DropNaAllAsAny(df) ==
    TakeRows(df, {p \in DOMAIN df.index : \A c \in Columns(df) : NotNa(df.cols[c][p])})

\* dropna(how="all") where the source has how="any"
DropNaAnyAsAll(df) ==
    TakeRows(df, {p \in DOMAIN df.index : \E c \in Columns(df) : NotNa(df.cols[c][p])})

\* DataFrame.dropna(how="all"): a row goes only when every column is NaN
DropNaAll(df) ==
    TakeRows(df, {p \in DOMAIN df.index : \E c \in Columns(df) : NotNa(df.cols[c][p])})

\* DataFrame.dropna(how="any"): a row goes when some column is NaN
DropNaAny(df) ==
    TakeRows(df, {p \in DOMAIN df.index : \A c \in Columns(df) : NotNa(df.cols[c][p])})

\* a - b of two Series on the same index
SeriesSub(a, b) == AsSeq([t \in 1..Len(a) |-> FSub(a[t], b[t])])

\* --------------------------------------------------------- pairwise metrics

\* Rolling windows: 63 and 126 trading days in the source, scaled down here so
\* that a window fills within the bounded series
ROLL_RET_WIN == 2
ROLL_RISK_WIN == 3

\* the f-strings naming the columns: the texts joined end to end
\* a name that leaves the asset out
ExcessNameOfBench(asset, bench) == "vs-" \o bench

ExcessName(asset, bench) == asset \o "-vs-" \o bench
CorrName(asset, bench) == "Corr(" \o asset \o "," \o bench \o ")"
BetaName(asset, bench) == "Beta(" \o asset \o "," \o bench \o ")"

\* a dict literal of two entries: the second wins when the keys are equal
Dict2(ka, va, kb, vb) == [k \in {ka, kb} |-> IF k = kb THEN vb ELSE va]

ExcessDf(frame, asset, bench_a, bench_b, r_asset, r_a, r_b) ==
    DropNaAll(DataFrame(frame.index,
        Dict2(ExcessName(asset, bench_a), SeriesSub(r_asset, r_a),
              ExcessName(asset, bench_b), SeriesSub(r_asset, r_b))))

\* The correlation table with both columns computed against bench_a.
CorrDfFirstBenchTwice(frame, asset, bench_a, bench_b) ==
    DropNaAll(DataFrame(frame.index,
        Dict2(CorrName(asset, bench_a),
              rolling_corr(frame.cols[asset], frame.cols[bench_a], ROLL_RISK_WIN),
              CorrName(asset, bench_b),
              rolling_corr(frame.cols[asset], frame.cols[bench_a], ROLL_RISK_WIN))))

CorrDf(frame, asset, bench_a, bench_b) ==
    DropNaAll(DataFrame(frame.index,
        Dict2(CorrName(asset, bench_a),
              rolling_corr(frame.cols[asset], frame.cols[bench_a], ROLL_RISK_WIN),
              CorrName(asset, bench_b),
              rolling_corr(frame.cols[asset], frame.cols[bench_b], ROLL_RISK_WIN))))

\* The beta table computed with the return window.
BetaDfReturnWindow(frame, asset, bench_a, bench_b) ==
    DropNaAll(DataFrame(frame.index,
        Dict2(BetaName(asset, bench_a),
              rolling_beta(frame.cols[asset], frame.cols[bench_a], ROLL_RET_WIN),
              BetaName(asset, bench_b),
              rolling_beta(frame.cols[asset], frame.cols[bench_b], ROLL_RET_WIN))))

BetaDf(frame, asset, bench_a, bench_b) ==
    DropNaAll(DataFrame(frame.index,
        Dict2(BetaName(asset, bench_a),
              rolling_beta(frame.cols[asset], frame.cols[bench_a], ROLL_RISK_WIN),
              BetaName(asset, bench_b),
              rolling_beta(frame.cols[asset], frame.cols[bench_b], ROLL_RISK_WIN))))

\* returns the tuple (excess_df, corr_df, beta_df)
compute_pairwise_metrics(frame, asset, bench_a, bench_b) ==
    <<ExcessDf(frame, asset, bench_a, bench_b,
               rolling_period_return(frame.cols[asset], ROLL_RET_WIN),
               rolling_period_return(frame.cols[bench_a], ROLL_RET_WIN),
               rolling_period_return(frame.cols[bench_b], ROLL_RET_WIN)),
      CorrDf(frame, asset, bench_a, bench_b),
      BetaDf(frame, asset, bench_a, bench_b)>>

\* ------------------------------------------------------------ main pipeline

\* The user settings: Bloomberg ticker by short name.
TICKERS ==
    [GSOX |-> "GSOX Index", RGUSTSC |-> "RGUSTSC Index",
     SPX |-> "SPX Index", MXWO |-> "MXWO Index"]

Shorts == DOMAIN TICKERS
BBTickers == {TICKERS[k] : k \in Shorts}

\* name_map: short name by Bloomberg ticker
name_map == [bbt \in BBTickers |-> CHOOSE k \in Shorts : TICKERS[k] = bbt]

\* What raw holds for a ticker: no entry at all, None, or the frame that
\* historical_request built, here its one value column as a function from the
\* dates of its rows to the row's value (NaN when the field was missing).
\* When the response carried a date twice, rows has the first of the two rows
\* and dup the second.
NotInRaw == [kind |-> "absent", rows |-> <<>>, dup |-> <<>>]
NoneFrame == [kind |-> "None", rows |-> <<>>, dup |-> <<>>]
Frame(rows) == [kind |-> "df", rows |-> rows, dup |-> <<>>]
FrameDup(rows, dup) == [kind |-> "df", rows |-> rows, dup |-> dup]

\* The skip test without its first disjunct, bbt not in raw.
SkippedUnlessAbsent(r, bbt) ==
    r[bbt].kind = "None" \/ (r[bbt].kind = "df" /\ DOMAIN r[bbt].rows = {})

\* bbt not in raw or raw[bbt] is None or raw[bbt].empty
Skipped(r, bbt) ==
    r[bbt].kind = "absent" \/ r[bbt].kind = "None" \/ DOMAIN r[bbt].rows = {}

\* the short names of the frames appended to panel
PanelNames(r) == {name_map[bbt] : bbt \in {b \in BBTickers : ~Skipped(r, b)}}

UnionDates(r, names) == UNION {DOMAIN r[TICKERS[k]].rows : k \in names}

\* the dates in K that some frame of the panel carries twice
DupDates(r, names) == UNION {DOMAIN r[TICKERS[k]].dup : k \in names}

\* the ascending dates K as index labels, a date of D twice
RECURSIVE LabelsTo(_, _, _)
LabelsTo(K, D, i) ==
    IF i = 0 THEN <<>>
    ELSE LabelsTo(K, D, i - 1) \o (IF K[i] \in D THEN <<K[i], K[i]>> ELSE <<K[i]>>)

Labels(K, D) == LabelsTo(K, D, Len(K))

\* the index of one frame
FrameLabels(f) == Labels(Ascending(DOMAIN f.rows), DOMAIN f.dup)

\* the union of the frames' indexes
CombinedLabels(r, names) == Labels(Ascending(UnionDates(r, names)), DupDates(r, names))

\* concat reindexes every frame whose index is not the combined one, and
\* reindexing a frame with a repeated date raises InvalidIndexError
ConcatRaises(r, names) ==
    \E k \in names :
        /\ DOMAIN r[TICKERS[k]].dup # {}
        /\ FrameLabels(r[TICKERS[k]]) # CombinedLabels(r, names)

\* a frame's column on the index: NaN on the dates the frame has no row for,
\* the second row of a date at the date's second label
Reindexed(f, index) ==
    AsSeq([j \in 1..Len(index) |->
            IF index[j] \notin DOMAIN f.rows THEN NaN
            ELSE IF j > 1 /\ index[j - 1] = index[j] /\ index[j] \in DOMAIN f.dup
                 THEN f.dup[index[j]]
            ELSE f.rows[index[j]]])

ConcatOn(r, names, index) ==
    DataFrame(index, [k \in names |-> Reindexed(r[TICKERS[k]], index)])

\* pd.concat(panel, axis=1).sort_index(): outer join on the dates, ascending
Concat(r, names) == ConcatOn(r, names, CombinedLabels(r, names))

\* The last row of a repeated date kept in place of the first.
DropDuplicatedKeepLast(df) ==
    TakeRows(df, {p \in DOMAIN df.index :
                    \A q \in DOMAIN df.index : q > p => df.index[q] # df.index[p]})

\* data[~data.index.duplicated(keep="first")]
DropDuplicated(df) ==
    TakeRows(df, {p \in DOMAIN df.index :
                    \A q \in DOMAIN df.index : q < p => df.index[q] # df.index[p]})

RECURSIVE FFillAt(_, _)
FFillAt(s, t) ==
    IF t = 0 THEN NaN ELSE IF NotNa(s[t]) THEN s[t] ELSE FFillAt(s, t - 1)

RECURSIVE BFillAt(_, _)
BFillAt(s, t) ==
    IF t > Len(s) THEN NaN ELSE IF NotNa(s[t]) THEN s[t] ELSE BFillAt(s, t + 1)

MapCols(df, cols) == DataFrame(df.index, cols)

ffill(df) ==
    MapCols(df, [c \in Columns(df) |->
                    AsSeq([t \in 1..Len(df.index) |-> FFillAt(df.cols[c], t)])])

\* No backward fill: the forward fill alone.
bfill_left_out(df) == df

\* DataFrame.bfill()
bfill(df) ==
    MapCols(df, [c \in Columns(df) |->
                    AsSeq([t \in 1..Len(df.index) |-> BFillAt(df.cols[c], t)])])

\* lines 236-237: the joined panel, one row per date
Joined(r) == DropDuplicated(Concat(r, PanelNames(r)))

\* The backward fill before the forward fill.
AlignBackwardFirst(r) == DropNaAny(ffill(bfill(Joined(r))))

\* lines 236-241: the aligned panel
Align(r) == DropNaAny(bfill(ffill(Joined(r))))

\* The rebase on the last row instead of the first.
RebaseSeriesLast(s) ==
    AsSeq([t \in 1..Len(s) |-> FMul(FDiv(s[t], s[Len(s)]), F(100))])

\* (s / s.iloc[0]) * 100.0
RebaseSeries(s) ==
    AsSeq([t \in 1..Len(s) |-> FMul(FDiv(s[t], s[1]), F(100))])

\* data.apply(lambda s: (s / s.iloc[0]) * 100.0); apply on a frame without
\* rows returns a copy of it
Rebase(df) == MapCols(df, [c \in Columns(df) |-> RebaseSeries(df.cols[c])])

\* Series.pct_change(): s / s.shift(1) - 1
PctChangeSeries(s) ==
    AsSeq([t \in 1..Len(s) |->
            IF t = 1 THEN NaN ELSE FSub(FDiv(s[t], s[t - 1]), F(1))])

\* data.pct_change().dropna()
Returns(df) ==
    DropNaAny(MapCols(df, [c \in Columns(df) |-> PctChangeSeries(df.cols[c])]))

\* the drawdown table: one column per ticker, from the rebased levels
Drawdowns(lv) == MapCols(lv, [c \in Shorts |-> drawdown(lv.cols[c])])

\* ------------------------------------------------------------------ bounds

\* length of the series handed to the analytics helpers
SeriesLen == 3
\* the helpers are called with every window 1..MaxWin
MaxWin == 3
\* rows of the returns table handed to compute_pairwise_metrics
RetRows == 3
\* dates of the calendar the fetched series lie on
NDates == 3

\* daily returns -1/2, 0, 1
RetVals == {Norm(-1, 2), F(0), F(1)}
\* levels, among them a zero and a negative one
LevelVals == {F(n) : n \in -1..2}
\* returns as pct_change().dropna() leaves them: no NaN, but an infinity
\* where the prior level was zero
RetValsInf == {F(0), F(1), PosInf}
\* closing levels of a fetched series
PanelVals == {F(0), F(1), F(2)}

SeriesOf(vals, n) == [1..n -> vals]

Dates == 1..NDates

\* series with gaps: rows on any subset of the dates but the empty one
\* (historical_request builds no frame without rows), a row's value either
\* missing or the level d on date d
GapFrames ==
    UNION {{[d \in D |-> IF d \in M THEN NaN ELSE F(d)] : M \in SUBSET D} :
            D \in (SUBSET Dates) \ {{}}}

\* series that carry one date twice: levels 1, 2, .. on all dates but the
\* last, the date k a second time with the level k + 1, the first row of
\* date k either the level 1 or missing
DupFrames ==
    {FrameDup([d \in 1..(NDates - 1) |-> IF d = k THEN v ELSE F(d)], k :> F(k + 1)) :
        k \in 1..(NDates - 1), v \in {NaN, F(1)}}

\* what the fetch may leave for the first asset: no entry, None, a series
\* with gaps or a series with a level on every date
FirstInputs ==
    {NotInRaw, NoneFrame} \cup {Frame(f) : f \in GapFrames \cup [Dates -> PanelVals]}
        \cup DupFrames

\* what it may leave for each of the other tickers: no entry, or one of the
\* series  1, 2, 3, ..;  0, 1, 2, ..;  2, 1, 2, ..;  or one that starts a day
\* late and ends on a missing value
OtherInputs ==
    {NotInRaw,
     Frame([d \in Dates |-> F(d)]),
     Frame([d \in Dates |-> F(d - 1)]),
     Frame([d \in Dates |-> F(1 + (d % 2))]),
     Frame([d \in Dates \ {1} |-> IF d = NDates THEN NaN ELSE F(d)])}

RawInputs ==
    {(TICKERS["GSOX"] :> g) @@ o :
        g \in FirstInputs, o \in [BBTickers \ {TICKERS["GSOX"]} -> OtherInputs]}

NoFrame == DataFrame(<<>>, <<>>)
NoMetrics == <<NoFrame, NoFrame, NoFrame>>

\* ------------------------------------------------------------------- state

VARIABLES
    fn,       \* the function under call
    pc,       \* "call" before it runs; "done" once it has returned, or the
              \* exception it raised
    a_y,      \* helper call: first series argument (levels, returns, y_ret)
    a_x,      \* helper call: second series argument (x_ret)
    a_win,    \* helper call: window argument
    a_sym,    \* metric tables: the asset and benchmark symbols of the calls
    out,      \* helper call: the series returned
    raw,      \* main: the fetched frames by Bloomberg ticker
    data,     \* main: the aligned panel
    levels_rebased,  \* main: the rebased levels
    rets,     \* the table of daily returns
    m_gsox,   \* compute_pairwise_metrics' tuple (excess_df, corr_df, beta_df)
              \* for GSOX
    m_rgus,   \* the same for RGUSTSC
    dd,       \* main: the drawdown table
    sent,     \* the requests sent on the Bloomberg session, in order
    events,   \* the events the session delivers, in order of arrival
    n_seen,   \* how many of them nextEvent() has handed to the caller
    handled,  \* the messages processed so far, in order
    USE_TOTAL_RETURN,  \* the user setting of that name
    service,  \* what Bloomberg has for each field and ticker
    sess,     \* the state of the blpapi session
    customer_df,  \* the frame handed to the enrichment (supplier_df as well)
    results   \* the enrichment values collected row by row

helper_vars == <<a_y, a_x, a_win, a_sym, out>>
main_vars == <<raw, data, levels_rebased, dd>>
metric_vars == <<rets, m_gsox, m_rgus>>
enrich_vars == <<customer_df, results>>
blp_vars == <<sent, events, n_seen, handled, USE_TOTAL_RETURN, service, sess, enrich_vars>>
vars ==
    <<fn, pc, a_y, a_x, a_win, a_sym, out, raw, data, levels_rebased, rets, m_gsox, m_rgus, dd,
      sent, events, n_seen, handled, USE_TOTAL_RETURN, service, sess, customer_df, results>>

\* ex_gsox, corr_gsox, beta_gsox = compute_pairwise_metrics(...)
ex_gsox == m_gsox[1]
corr_gsox == m_gsox[2]
beta_gsox == m_gsox[3]

\* ex_rgus, corr_rgus, beta_rgus = compute_pairwise_metrics(...)
ex_rgus == m_rgus[1]
corr_rgus == m_rgus[2]
beta_rgus == m_rgus[3]

NoHelperCall == a_y = <<>> /\ a_x = <<>> /\ a_win = 0 /\ a_sym = <<>> /\ out = <<>>

\* no Bloomberg session in use
NoSession ==
    /\ sent = <<>>
    /\ events = <<>>
    /\ n_seen = 0
    /\ handled = <<>>
    /\ USE_TOTAL_RETURN = FALSE
    /\ service = <<>>
    /\ sess = "none"
    /\ customer_df = <<>>
    /\ results = <<>>

NoMainRun ==
    /\ raw = <<>>
    /\ data = NoFrame
    /\ levels_rebased = NoFrame
    /\ dd = NoFrame

\* ----------------------------------------------- calls of the helpers

\* one call of one helper, on arguments drawn from the bounded sets
InitHelpers ==
    /\ pc = "call"
    /\ NoSession
    /\ out = <<>>
    /\ a_sym = <<>>
    /\ NoMainRun
    /\ rets = NoFrame
    /\ m_gsox = NoMetrics
    /\ m_rgus = NoMetrics
    /\ \/ /\ fn = "drawdown"
          /\ a_y \in SeriesOf(LevelVals, SeriesLen)
          /\ a_x = <<>>
          /\ a_win = 0
       \/ /\ fn = "rolling_beta"
          /\ a_y \in SeriesOf(RetVals, SeriesLen)
          /\ a_x \in SeriesOf(RetVals, SeriesLen)
          /\ a_win \in 1..MaxWin
       \/ /\ fn = "rolling_corr"
          /\ a_y \in SeriesOf(RetVals, SeriesLen)
          /\ a_x \in SeriesOf(RetVals, SeriesLen)
          /\ a_win \in 1..MaxWin
       \/ /\ fn = "rolling_period_return"
          /\ a_y \in SeriesOf(RetVals, SeriesLen)
          /\ a_x = <<>>
          /\ a_win \in 1..MaxWin

\* drawdown dividing the caller's series in place (levels /= roll_max)
CallDrawdownInPlace ==
    /\ pc = "call" /\ fn = "drawdown"
    /\ out' = drawdown(a_y)
    /\ a_y' = out'
    /\ pc' = "done"
    /\ UNCHANGED <<fn, blp_vars, a_x, a_win, a_sym, main_vars, metric_vars>>

CallDrawdown ==
    /\ pc = "call" /\ fn = "drawdown"
    /\ out' = drawdown(a_y)
    /\ pc' = "done"
    /\ UNCHANGED <<fn, blp_vars, a_y, a_x, a_win, a_sym, main_vars, metric_vars>>

CallRollingBeta ==
    /\ pc = "call" /\ fn = "rolling_beta"
    /\ out' = rolling_beta(a_y, a_x, a_win)
    /\ pc' = "done"
    /\ UNCHANGED <<fn, blp_vars, a_y, a_x, a_win, a_sym, main_vars, metric_vars>>

CallRollingPeriodReturn ==
    /\ pc = "call" /\ fn = "rolling_period_return"
    /\ out' = rolling_period_return(a_y, a_win)
    /\ pc' = "done"
    /\ UNCHANGED <<fn, blp_vars, a_y, a_x, a_win, a_sym, main_vars, metric_vars>>

\* the rolling correlation of compute_pairwise_metrics, one column of it:
\* rets[asset].rolling(win).corr(rets[bench])
CallRollingCorr ==
    /\ pc = "call" /\ fn = "rolling_corr"
    /\ out' = rolling_corr(a_y, a_x, a_win)
    /\ pc' = "done"
    /\ UNCHANGED <<fn, blp_vars, a_y, a_x, a_win, a_sym, main_vars, metric_vars>>

NextHelpers ==
    CallDrawdown \/ CallRollingBeta \/ CallRollingPeriodReturn \/ CallRollingCorr

SpecHelpers == InitHelpers /\ [][NextHelpers]_vars

\* ------------------------------------- a call of compute_pairwise_metrics

\* one call of compute_pairwise_metrics, as main() makes it, on a returns
\* table drawn from the bounded sets
InitMetrics ==
    /\ pc = "call"
    /\ NoSession
    /\ fn = "compute_pairwise_metrics"
    /\ NoHelperCall
    /\ NoMainRun
    /\ rets \in {DataFrame(AsSeq([i \in 1..RetRows |-> i]),
                           [GSOX |-> g, SPX |-> a, MXWO |-> b]) :
                    g \in SeriesOf(RetVals \ {F(0)}, RetRows),
                    a \in SeriesOf(RetValsInf, RetRows),
                    b \in {m \in SeriesOf(RetVals \ {F(0)}, RetRows) : m[1] = F(1)}}
    /\ m_gsox = NoMetrics
    /\ m_rgus = NoMetrics

CallComputePairwiseMetrics ==
    /\ pc = "call" /\ fn = "compute_pairwise_metrics"
    /\ m_gsox' = compute_pairwise_metrics(rets, "GSOX", "SPX", "MXWO")
    /\ pc' = "done"
    /\ UNCHANGED <<fn, blp_vars, helper_vars, main_vars, rets, m_rgus>>

NextMetrics == CallComputePairwiseMetrics

SpecMetrics == InitMetrics /\ [][NextMetrics]_vars

\* ------------------------------------- the metric tables of two assets

\* symbols a caller may name columns of the returns table with: the four
\* of TICKERS and strings holding the separators of the column names
Symbols ==
    {"GSOX", "RGUSTSC", "SPX", "MXWO", "A", "B", "A-vs", "vs-B", "A,B", "B,B"}

\* those among them drawn as benchmarks
BenchSymbols == {"SPX", "MXWO", "B", "vs-B", "B,B"}

\* the symbols written without a hyphen, and those without a comma
NoHyphen == Symbols \ {"A-vs", "vs-B"}
NoComma == Symbols \ {"A,B", "B,B"}

\* the column labels of pd.concat([a, b], axis=1), each with the number of
\* columns that carry it
ConcatColumns(a, b) ==
    [c \in Columns(a) \cup Columns(b) |->
        (IF c \in Columns(a) THEN 1 ELSE 0) + (IF c \in Columns(b) THEN 1 ELSE 0)]

\* the metrics of two assets against the same two benchmarks and their
\* tables side by side, as main() builds ex_all, corr_all and beta_all
InitTables ==
    /\ pc = "call"
    /\ NoSession
    /\ fn = "metric_tables"
    /\ a_y = <<>> /\ a_x = <<>> /\ a_win = 0 /\ out = <<>>
    /\ NoMainRun
    /\ a_sym \in [asset_1 : Symbols, asset_2 : Symbols,
                  bench_a : BenchSymbols, bench_b : BenchSymbols]
    /\ rets = DataFrame(AsSeq([i \in 1..RetRows |-> i]),
                        [c \in {a_sym.asset_1, a_sym.asset_2, a_sym.bench_a, a_sym.bench_b}
                            |-> AsSeq([i \in 1..RetRows |-> F(1)])])
    /\ m_gsox = NoMetrics
    /\ m_rgus = NoMetrics

CallMetricTables ==
    /\ pc = "call" /\ fn = "metric_tables"
    /\ m_gsox' = compute_pairwise_metrics(rets, a_sym.asset_1, a_sym.bench_a, a_sym.bench_b)
    /\ m_rgus' = compute_pairwise_metrics(rets, a_sym.asset_2, a_sym.bench_a, a_sym.bench_b)
    /\ out' = [ex_all |-> ConcatColumns(m_gsox'[1], m_rgus'[1]),
               corr_all |-> ConcatColumns(m_gsox'[2], m_rgus'[2]),
               beta_all |-> ConcatColumns(m_gsox'[3], m_rgus'[3])]
    /\ pc' = "done"
    /\ UNCHANGED <<fn, blp_vars, a_y, a_x, a_win, a_sym, main_vars, rets>>

NextTables == CallMetricTables

SpecTables == InitTables /\ [][NextTables]_vars

\* ------------------------------------------------------------- main()

\* main() after the fetch: raw is what historical_request returned
Init ==
    /\ pc = "call"
    /\ NoSession
    /\ fn = "main"
    /\ NoHelperCall
    /\ raw \in RawInputs
    /\ data = NoFrame
    /\ levels_rebased = NoFrame
    /\ rets = NoFrame
    /\ m_gsox = NoMetrics
    /\ m_rgus = NoMetrics
    /\ dd = NoFrame

\* rets[asset], rets[bench_a] or rets[bench_b] raises KeyError when the
\* ticker was skipped and the panel has no such column
HasColumns(names, asset) == {asset, "SPX", "MXWO"} \subseteq names

\* lines 209-243 of main(): the panel
MainAlign ==
    /\ pc = "call" /\ fn = "main"
    /\ \/ \* if not panel: raise RuntimeError
          /\ PanelNames(raw) = {}
          /\ pc' = "RuntimeError"
          /\ UNCHANGED data
       \/ \* line 236 raises
          /\ PanelNames(raw) # {}
          /\ ConcatRaises(raw, PanelNames(raw))
          /\ pc' = "InvalidIndexError"
          /\ UNCHANGED data
       \/ /\ PanelNames(raw) # {}
          /\ ~ConcatRaises(raw, PanelNames(raw))
          /\ data' = Align(raw)
          /\ pc' = "aligned"
    /\ UNCHANGED <<fn, blp_vars, helper_vars, raw, levels_rebased, rets, m_gsox, m_rgus, dd>>

\* lines 246-263 of main(): the analytics
MainAnalytics ==
    /\ pc = "aligned" /\ fn = "main"
    /\ levels_rebased' = Rebase(data)
    /\ rets' = Returns(data)
    /\ \/ \* line 254 raises KeyError
          /\ ~HasColumns(Columns(data), "GSOX")
          /\ pc' = "KeyError"
          /\ UNCHANGED <<m_gsox, m_rgus, dd>>
       \/ \* line 255 raises KeyError
          /\ HasColumns(Columns(data), "GSOX")
          /\ ~HasColumns(Columns(data), "RGUSTSC")
          /\ m_gsox' = compute_pairwise_metrics(rets', "GSOX", "SPX", "MXWO")
          /\ pc' = "KeyError"
          /\ UNCHANGED <<m_rgus, dd>>
       \/ /\ Columns(data) = Shorts
          /\ m_gsox' = compute_pairwise_metrics(rets', "GSOX", "SPX", "MXWO")
          /\ m_rgus' = compute_pairwise_metrics(rets', "RGUSTSC", "SPX", "MXWO")
          /\ dd' = Drawdowns(levels_rebased')
          /\ pc' = "done"
    /\ UNCHANGED <<fn, blp_vars, helper_vars, raw, data>>

Next == MainAlign \/ MainAnalytics

Spec == Init /\ [][Next]_vars

\* ------------------------------------------------- historical_request

\* blpapi event types: the two the loop processes, and SESSION_STATUS for
\* every other type
EventTypes == {"PARTIAL_RESPONSE", "RESPONSE", "SESSION_STATUS"}

Event(type, msgs) == [type |-> type, msgs |-> msgs]

\* a message: its type, the security of its securityData and the rows of
\* its fieldData, each <<date, value of the field>> (NaN for a null field)
Msg(mtype, security, rows) == [mtype |-> mtype, security |-> security, rows |-> rows]

HistMsg(security, rows) == Msg("HistoricalDataResponse", security, rows)

\* the messages drawn: rows for GSOX, other rows for GSOX that arrive out of
\* date order with a null field, rows for SPX, a GSOX message without rows,
\* and a message of another type
MsgGsox == HistMsg("GSOX Index", <<<<1, F(1)>>>>)
MsgGsoxLater == HistMsg("GSOX Index", <<<<3, F(2)>>, <<2, NaN>>>>)
MsgSpx == HistMsg("SPX Index", <<<<2, F(2)>>>>)
MsgNoRows == HistMsg("GSOX Index", <<>>)
MsgOther == Msg("SessionConnectionUp", "", <<>>)

MsgSeqs ==
    {<<>>, <<MsgGsox>>, <<MsgGsoxLater>>, <<MsgSpx>>, <<MsgGsox, MsgGsoxLater>>,
     <<MsgSpx, MsgNoRows>>, <<MsgOther, MsgGsox>>}

EventChoices ==
    {Event(t, m) : t \in {"PARTIAL_RESPONSE", "RESPONSE"}, m \in MsgSeqs}
        \cup {Event("SESSION_STATUS", <<MsgOther>>)}

\* the longest event stream drawn
MaxEvents == 3

EventStreams == UNION {[1..n -> EventChoices] : n \in 1..MaxEvents}

\* et in (PARTIAL_RESPONSE, RESPONSE)
IsResponseType(et) == et \in {"PARTIAL_RESPONSE", "RESPONSE"}

\* The loop left on a partial response as well.
EndsWaitOnAnyResponse(et) == et \in {"PARTIAL_RESPONSE", "RESPONSE"}

\* if et == RESPONSE: break
EndsWait(et) == et = "RESPONSE"

\* pd.DataFrame(rows).set_index("date").sort_index() for rows of distinct
\* dates: the rows in ascending date order
SortIndex(rows) ==
    AsSeq([j \in 1..Len(rows) |->
            rows[CHOOSE i \in 1..Len(rows) :
                    Cardinality({k \in 1..Len(rows) : rows[k][1] < rows[i][1]}) = j - 1]])

\* The new rows appended to the rows the security already has.
StoreMerged(o, sec, df) ==
    [k \in DOMAIN o \cup {sec} |->
        IF k # sec THEN o[k]
        ELSE IF sec \in DOMAIN o THEN o[sec] \o df ELSE df]

\* out[sec_name] = df
Store(o, sec, df) ==
    [k \in DOMAIN o \cup {sec} |-> IF k = sec THEN df ELSE o[k]]

\* for msg in ev: the messages from the i-th on.  A HistoricalDataResponse
\* without rows makes set_index("date") raise KeyError, which ends the loop
\* and the call.
RECURSIVE ProcessMsgs(_, _, _, _)
ProcessMsgs(o, h, msgs, i) ==
    IF i > Len(msgs) THEN [out |-> o, handled |-> h, raised |-> FALSE]
    ELSE IF msgs[i].mtype # "HistoricalDataResponse" THEN ProcessMsgs(o, h, msgs, i + 1)
    ELSE IF msgs[i].rows = <<>> THEN [out |-> o, handled |-> h, raised |-> TRUE]
    ELSE ProcessMsgs(Store(o, msgs[i].security, SortIndex(msgs[i].rows)),
                     Append(h, msgs[i]), msgs, i + 1)

\* one pass of the loop body on the event ev
ProcessEvent(o, h, ev) ==
    IF IsResponseType(ev.type) THEN ProcessMsgs(o, h, ev.msgs, 1)
    ELSE [out |-> o, handled |-> h, raised |-> FALSE]

\* one call of historical_request on a started session; the events are
\* those the session will deliver
InitRequest ==
    /\ pc = "call"
    /\ fn = "historical_request"
    /\ NoHelperCall
    /\ NoMainRun
    /\ rets = NoFrame
    /\ m_gsox = NoMetrics
    /\ m_rgus = NoMetrics
    /\ sent = <<>>
    /\ events \in EventStreams
    /\ n_seen = 0
    /\ handled = <<>>
    /\ USE_TOTAL_RETURN = FALSE
    /\ service = <<>>
    /\ sess = "open"
    /\ customer_df = <<>>
    /\ results = <<>>

\* lines 75-96: build the request, send it, out = {}
SendRequest ==
    /\ pc = "call" /\ fn = "historical_request"
    /\ sent' = Append(sent, "HistoricalDataRequest")
    /\ out' = <<>>
    /\ pc' = "wait"
    /\ UNCHANGED <<fn, a_y, a_x, a_win, a_sym, main_vars, metric_vars, events, n_seen, handled, USE_TOTAL_RETURN, service, sess, enrich_vars>>

NextEventWith(ev, res) ==
    /\ n_seen' = n_seen + 1
    /\ out' = res.out
    /\ handled' = res.handled
    /\ pc' = IF res.raised THEN "KeyError"
             ELSE IF EndsWait(ev.type) THEN "done"
             ELSE "wait"

\* lines 98-127: one pass of the loop.  nextEvent() blocks while no event
\* has arrived.
NextEvent ==
    /\ pc = "wait" /\ fn = "historical_request"
    /\ n_seen < Len(events)
    /\ NextEventWith(events[n_seen + 1], ProcessEvent(out, handled, events[n_seen + 1]))
    /\ UNCHANGED <<fn, a_y, a_x, a_win, a_sym, main_vars, metric_vars, sent, events, USE_TOTAL_RETURN, service, sess, enrich_vars>>

NextRequest == SendRequest \/ NextEvent

SpecRequest == InitRequest /\ [][NextRequest]_vars

\* ------------------------------------------ main(): fetch and fallback

base_field == "PX_LAST"
tr_field == "TOT_RETURN_INDEX_NET_DVDS"

\* What the service has for a field of a ticker: no securityData message
\* ("absent"), a message whose fieldData has no rows ("norows"), rows in which
\* the field is null ("allnan"), or rows with values ("data").
AnswerKinds == {"absent", "norows", "allnan", "data"}

\* the frame historical_request builds from rows with the one field asked for
FieldFrame(field, rows) ==
    [kind |-> "df", rows |-> rows, dup |-> <<>>, cols |-> <<field>>]

\* the rows of a ticker: the total-return index is one above the price
AnsweredFrame(field, kind) ==
    IF kind = "allnan" THEN FieldFrame(field, [d \in Dates |-> NaN])
    ELSE FieldFrame(field, [d \in Dates |-> IF field = tr_field THEN F(d + 1) ELSE F(d)])

\* historical_request raises KeyError at line 119 when a message has no rows
RequestRaises(svc, tickers, field) ==
    \E t \in tickers : svc[field][t] = "norows"

\* the mapping historical_request returns: the last (here only) message of
\* each security, none for a ticker that was not asked for or got no message
RequestResult(svc, tickers, field) ==
    [t \in BBTickers |->
        IF t \in tickers /\ svc[field][t] \in {"allnan", "data"}
        THEN AnsweredFrame(field, svc[field][t])
        ELSE NotInRaw]

Request(tickers, fields) == [securities |-> tickers, fields |-> fields]

\* [t for t in bb_tickers if (t not in raw) or raw[t].dropna(how="all").empty]
NeedFallback(r) ==
    {t \in BBTickers :
        r[t].kind = "absent" \/ \A d \in DOMAIN r[t].rows : IsNaN(r[t].rows[d])}

\* raw[t] = fb.get(t) for t in need_fallback
WithFallback(r, fb, need) ==
    [t \in BBTickers |->
        IF t \notin need THEN r[t]
        ELSE IF fb[t].kind = "absent" THEN NoneFrame ELSE fb[t]]

\* lines 226-230: the value column taken from a frame
ValCol(f, use_tr) ==
    IF use_tr /\ \E i \in DOMAIN f.cols : f.cols[i] = tr_field THEN tr_field
    ELSE IF \E i \in DOMAIN f.cols : f.cols[i] = base_field THEN base_field
    ELSE f.cols[1]

\* GSOX and RGUSTSC get any answer, SPX and MXWO have data or no message
ServiceChoices ==
    [{base_field, tr_field} ->
        {a \in [BBTickers -> AnswerKinds] :
            \A t \in {TICKERS["SPX"], TICKERS["MXWO"]} : a[t] \in {"absent", "data"}}]

\* main() from its start, the session open
InitFetch ==
    /\ pc = "fetch"
    /\ fn = "main"
    /\ NoHelperCall
    /\ raw = <<>>
    /\ data = NoFrame
    /\ levels_rebased = NoFrame
    /\ rets = NoFrame
    /\ m_gsox = NoMetrics
    /\ m_rgus = NoMetrics
    /\ dd = NoFrame
    /\ sent = <<>>
    /\ events = <<>>
    /\ n_seen = 0
    /\ handled = <<>>
    /\ USE_TOTAL_RETURN \in BOOLEAN
    /\ service \in ServiceChoices
    /\ sess = "open"
    /\ customer_df = <<>>
    /\ results = <<>>
    /\ ~USE_TOTAL_RETURN => \A t \in BBTickers : service[tr_field][t] = "absent"

FirstField == IF USE_TOTAL_RETURN THEN tr_field ELSE base_field

\* lines 189-199: the request for all four tickers
MainFetch ==
    /\ pc = "fetch" /\ fn = "main"
    /\ sent' = Append(sent, Request(BBTickers, <<FirstField>>))
    /\ \/ /\ RequestRaises(service, BBTickers, FirstField)
          /\ pc' = "KeyError"
          /\ UNCHANGED raw
       \/ /\ ~RequestRaises(service, BBTickers, FirstField)
          /\ raw' = RequestResult(service, BBTickers, FirstField)
          /\ pc' = IF USE_TOTAL_RETURN THEN "fallback" ELSE "call"
    /\ UNCHANGED <<fn, helper_vars, data, levels_rebased, dd, metric_vars,
                   events, n_seen, handled, USE_TOTAL_RETURN, service, sess, enrich_vars>>

\* lines 202-207: the second request, for the tickers without total return
MainFallback ==
    /\ pc = "fallback" /\ fn = "main"
    /\ \/ /\ NeedFallback(raw) = {}
          /\ pc' = "call"
          /\ UNCHANGED <<raw, sent>>
       \/ /\ NeedFallback(raw) # {}
          /\ sent' = Append(sent, Request(NeedFallback(raw), <<base_field>>))
          /\ \/ /\ RequestRaises(service, NeedFallback(raw), base_field)
                /\ pc' = "KeyError"
                /\ UNCHANGED raw
             \/ /\ ~RequestRaises(service, NeedFallback(raw), base_field)
                /\ raw' = WithFallback(raw,
                                       RequestResult(service, NeedFallback(raw), base_field),
                                       NeedFallback(raw))
                /\ pc' = "call"
    /\ UNCHANGED <<fn, helper_vars, data, levels_rebased, dd, metric_vars,
                   events, n_seen, handled, USE_TOTAL_RETURN, service, sess, enrich_vars>>

NextFetch == MainFetch \/ MainFallback \/ MainAlign \/ MainAnalytics

SpecFetch == InitFetch /\ [][NextFetch]_vars

\* ------------------------------------- the session of the four programs

\* the operations that open a session
Operations ==
    {"main", "fetch_supply_chain", "process_customers_to_excel",
     "process_tickers_to_excel"}

\* fetch_supply_chain and the two process_..._to_excel functions stop the
\* session in a finally clause; main() calls sess.stop() after the fetch
StopsInFinally(op) == op # "main"

\* requests one run sends at most
MaxRequests == 3

\* main() sends the request for the four tickers and at most the fallback
RequestLimit(op) == IF op = "main" THEN 2 ELSE MaxRequests

\* an event of the session's queue; cid 0 marks an event of no request
QueuedEvent(type, cid) == [type |-> type, cid |-> cid]

AdminEvent == QueuedEvent("SESSION_STATUS", 0)

\* what the service queues for one request: partial responses, events of
\* other kinds between them, and one final RESPONSE
ResponseStreams(cid) ==
    {<<QueuedEvent("RESPONSE", cid)>>,
     <<QueuedEvent("PARTIAL_RESPONSE", cid), QueuedEvent("RESPONSE", cid)>>,
     <<AdminEvent, QueuedEvent("RESPONSE", cid)>>,
     <<QueuedEvent("PARTIAL_RESPONSE", cid), AdminEvent, QueuedEvent("RESPONSE", cid)>>,
     <<QueuedEvent("PARTIAL_RESPONSE", cid), QueuedEvent("PARTIAL_RESPONSE", cid),
       QueuedEvent("RESPONSE", cid)>>}

\* a request loop that returns after its first event
AfterEventFirstOnly(et) == "body"

\* while True: ... if ev.eventType() == blpapi.Event.RESPONSE: break
AfterEvent(et) == IF EndsWait(et) THEN "body" ELSE "wait"

InitSession ==
    /\ pc = "start"
    /\ fn \in Operations
    /\ NoHelperCall
    /\ NoMainRun
    /\ rets = NoFrame
    /\ m_gsox = NoMetrics
    /\ m_rgus = NoMetrics
    /\ NoSession

\* session.start(): false makes the operation raise RuntimeError
SessionStart ==
    /\ pc = "start" /\ fn \in Operations
    /\ \/ /\ sess' = "started"
          /\ events' = <<AdminEvent>>
          /\ pc' = "openService"
       \/ /\ pc' = "RuntimeError"
          /\ UNCHANGED <<sess, events>>
    /\ UNCHANGED <<fn, helper_vars, main_vars, metric_vars, sent, n_seen, handled,
                   USE_TOTAL_RETURN, service, enrich_vars>>

\* session.openService("//blp/refdata"): false makes the operation raise
\* RuntimeError, before any try block is entered
OpenService ==
    /\ pc = "openService" /\ fn \in Operations
    /\ \/ /\ sess' = "open"
          /\ events' = Append(events, AdminEvent)
          /\ pc' = "body"
       \/ /\ pc' = "RuntimeError"
          /\ UNCHANGED <<sess, events>>
    /\ UNCHANGED <<fn, helper_vars, main_vars, metric_vars, sent, n_seen, handled,
                   USE_TOTAL_RETURN, service, enrich_vars>>

\* session.sendRequest(req) of historical_request, _bds, _bdp_rel_amount,
\* bds_supply_chain_..._session and _bdp_..._enrichment
SessionSendRequest ==
    /\ pc = "body" /\ fn \in Operations
    /\ Len(sent) < RequestLimit(fn)
    /\ sent' = Append(sent, [cid |-> Len(sent) + 1, session |-> sess])
    /\ \E stream \in ResponseStreams(Len(sent) + 1) : events' = events \o stream
    /\ pc' = "wait"
    /\ UNCHANGED <<fn, helper_vars, main_vars, metric_vars, n_seen, handled,
                   USE_TOTAL_RETURN, service, sess, enrich_vars>>

\* one turn of the loop around session.nextEvent(); in historical_request a
\* message without rows raises KeyError, which main() does not catch
SessionNextEvent ==
    /\ pc = "wait" /\ fn \in Operations
    /\ events # <<>>
    /\ events' = Tail(events)
    /\ n_seen' = n_seen + 1
    /\ handled' = IF IsResponseType(Head(events).type)
                  THEN Append(handled, [cid |-> Head(events).cid, latest |-> Len(sent)])
                  ELSE handled
    /\ \/ pc' = AfterEvent(Head(events).type)
       \/ /\ fn = "main" /\ IsResponseType(Head(events).type)
          /\ pc' = "KeyError"
    /\ UNCHANGED <<fn, helper_vars, main_vars, metric_vars, sent,
                   USE_TOTAL_RETURN, service, sess, enrich_vars>>

\* the end of the fetch: sess.stop() at line 209 of main(), the finally
\* clause of the other operations on their return
SessionStop ==
    /\ pc = "body" /\ fn \in Operations
    /\ sess' = "stopped"
    /\ pc' = "returned"
    /\ UNCHANGED <<fn, helper_vars, main_vars, metric_vars, sent, events, n_seen,
                   handled, USE_TOTAL_RETURN, service, enrich_vars>>

\* an exception inside the try block (ValueError of the enrichment, a failed
\* Excel write): the finally clause stops the session and the exception
\* goes on to the caller
BodyRaises ==
    /\ pc = "body" /\ StopsInFinally(fn) /\ fn \in Operations
    /\ sess' = "stopped"
    /\ pc' = "raised"
    /\ UNCHANGED <<fn, helper_vars, main_vars, metric_vars, sent, events, n_seen,
                   handled, USE_TOTAL_RETURN, service, enrich_vars>>

NextSession ==
    \/ SessionStart
    \/ OpenService
    \/ SessionSendRequest
    \/ SessionNextEvent
    \/ SessionStop
    \/ BodyRaises

SpecSession == InitSession /\ [][NextSession]_vars

\* ------------------------------- enrich_..._with_bdp_session (two files)

EnrichOps == {"enrich_customers_with_bdp_session", "enrich_suppliers_with_bdp_session"}

IsCustomers(op) == op = "enrich_customers_with_bdp_session"

\* the column of the issuer that was queried
BaseCol(op) == IF IsCustomers(op) THEN "customer_ticker" ELSE "supplier_ticker"

NameCol(op) == IF IsCustomers(op) THEN "customer_name" ELSE "supplier_name"

\* the five columns the enrichment adds
EnrichCols(op) ==
    {"relationship_amount_usd", "relationship_as_of_date",
     "supply_chain_revenue_percentage", "supply_chain_cost_percentage",
     IF IsCustomers(op) THEN "supply_chain_revenue_account_type"
     ELSE "supply_chain_cost_account_type"}

\* a cell: None / NaN, or a text as its sequence of characters
NaCell == [na |-> TRUE, text |-> <<>>]
Text(chars) == [na |-> FALSE, text |-> chars]

\* pd.notna(v)
notna(cell) == ~cell.na

RECURSIVE LStrip(_)
LStrip(chars) ==
    IF chars # <<>> /\ Head(chars) = " " THEN LStrip(Tail(chars)) ELSE chars

RECURSIVE RStrip(_)
RStrip(chars) ==
    IF chars # <<>> /\ chars[Len(chars)] = " "
    THEN RStrip(SubSeq(chars, 1, Len(chars) - 1)) ELSE chars

\* str.strip()
Strip(chars) == RStrip(LStrip(chars))

\* str(row[col]).strip() if pd.notna(row[col]) else ""
KeyOf(cell) == IF notna(cell) THEN Strip(cell.text) ELSE <<>>

\* The name column before the 'Equity Ticker' column.
RelatedColNameFirst(op, columns) ==
    IF NameCol(op) \in columns THEN NameCol(op)
    ELSE IF "Equity Ticker" \in columns THEN "Equity Ticker"
    ELSE "ValueError"

\* related_col: 'Equity Ticker' if the frame has it, else the name column,
\* else ValueError
RelatedCol(op, columns) ==
    IF "Equity Ticker" \in columns THEN "Equity Ticker"
    ELSE IF NameCol(op) \in columns THEN NameCol(op)
    ELSE "ValueError"

\* the dict appended for a row without a request
NoneVals(op) == [c \in EnrichCols(op) |-> NaCell]

\* DataFrame.empty: no row or no column
IsEmptyFrame(df) == df.rows = <<>> \/ df.columns = {}

\* pd.concat([df, res_df], axis=1), res_df on the index of df; also
\* df.assign(<the five columns>=None) when res holds NoneVals only
ConcatAxis1(op, df, res) ==
    [columns |-> df.columns \cup EnrichCols(op),
     rows |-> AsSeq([i \in 1..Len(df.rows) |->
                [c \in df.columns \cup EnrichCols(op) |->
                    IF c \in EnrichCols(op) THEN res[i][c] ELSE df.rows[i][c]]])]

\* rows of the frames handed in
MaxRows == 2

\* the cells of a column: a key of the column between blanks, or none: the
\* related ticker missing, the name blanks only, the base ticker either
CellsOf(col) ==
    IF col = "Equity Ticker" THEN {NaCell, Text(<<" ", "E", " ">>)}
    ELSE IF col \in {"customer_name", "supplier_name"}
    THEN {Text(<<" ">>), Text(<<" ", "N", " ">>)}
    ELSE {NaCell, Text(<<" ">>), Text(<<" ", "T", " ">>)}

InputFrames(op) ==
    UNION {UNION {{[columns |-> C, rows |-> r] :
                        r \in [1..n -> {row \in [C -> UNION {CellsOf(c) : c \in C}] :
                                            \A c \in C : row[c] \in CellsOf(c)}]} :
                    n \in 0..MaxRows} :
            C \in SUBSET {BaseCol(op), NameCol(op), "Equity Ticker"}}

\* what _bdp_..._enrichment returns: five None when the response has no
\* fieldData, else the values read from it
EnrichAnswers(op) ==
    {NoneVals(op), [c \in EnrichCols(op) |-> Text(<<"1">>)]}

InitEnrich ==
    /\ pc = "call"
    /\ fn \in EnrichOps
    /\ NoHelperCall
    /\ NoMainRun
    /\ rets = NoFrame
    /\ m_gsox = NoMetrics
    /\ m_rgus = NoMetrics
    /\ sent = <<>>
    /\ events = <<>>
    /\ n_seen = 0
    /\ handled = <<>>
    /\ USE_TOTAL_RETURN = FALSE
    /\ service \in EnrichAnswers(fn)
    /\ sess = "open"
    /\ customer_df \in InputFrames(fn)
    /\ results = <<>>

\* the checks before the loop: the empty frame returns at once, a frame
\* without the base column or without a related column raises ValueError
EnrichCall ==
    /\ pc = "call" /\ fn \in EnrichOps
    /\ \/ /\ IsEmptyFrame(customer_df)
          /\ out' = ConcatAxis1(fn, customer_df,
                                [i \in 1..Len(customer_df.rows) |-> NoneVals(fn)])
          /\ pc' = "done"
       \/ /\ ~IsEmptyFrame(customer_df)
          /\ \/ BaseCol(fn) \notin customer_df.columns
             \/ RelatedCol(fn, customer_df.columns) = "ValueError"
          /\ pc' = "ValueError"
          /\ UNCHANGED out
       \/ /\ ~IsEmptyFrame(customer_df)
          /\ BaseCol(fn) \in customer_df.columns
          /\ RelatedCol(fn, customer_df.columns) # "ValueError"
          /\ pc' = "rows"
          /\ UNCHANGED out
    /\ UNCHANGED <<fn, a_y, a_x, a_win, a_sym, main_vars, metric_vars,
                   blp_vars>>

\* the request of a row: base ticker and related key
EnrichRequest(base, related) == [base |-> base, related |-> related]

EnrichRowWith(row, base, related) ==
    IF base = <<>> \/ related = <<>>
    THEN /\ results' = Append(results, NoneVals(fn))
         /\ UNCHANGED sent
    ELSE /\ sent' = Append(sent, EnrichRequest(base, related))
         /\ results' = Append(results, service)

\* one turn of  for _, row in df.iterrows()
EnrichRow ==
    /\ pc = "rows" /\ fn \in EnrichOps
    /\ Len(results) < Len(customer_df.rows)
    /\ EnrichRowWith(customer_df.rows[Len(results) + 1],
                     KeyOf(customer_df.rows[Len(results) + 1][BaseCol(fn)]),
                     KeyOf(customer_df.rows[Len(results) + 1]
                                [RelatedCol(fn, customer_df.columns)]))
    /\ UNCHANGED <<fn, pc, helper_vars, main_vars, metric_vars, events, n_seen,
                   handled, USE_TOTAL_RETURN, service, sess, customer_df>>

\* res_df = pd.DataFrame(results, index=df.index);
\* return pd.concat([df, res_df], axis=1)
EnrichReturn ==
    /\ pc = "rows" /\ fn \in EnrichOps
    /\ Len(results) = Len(customer_df.rows)
    /\ out' = ConcatAxis1(fn, customer_df, results)
    /\ pc' = "done"
    /\ UNCHANGED <<fn, a_y, a_x, a_win, a_sym, main_vars, metric_vars,
                   blp_vars>>

NextEnrich == EnrichCall \/ EnrichRow \/ EnrichReturn

SpecEnrich == InitEnrich /\ [][NextEnrich]_vars

\* ---------------------------------------------- every call of the model

\* a call of a helper, a call of compute_pairwise_metrics, or a run of main()
InitAll == InitHelpers \/ InitMetrics \/ Init

NextAll == NextHelpers \/ NextMetrics \/ Next

SpecAll == InitAll /\ [][NextAll]_vars

\* ------------------------------------------------------------ properties

HelperDone(name) == pc = "done" /\ fn = name

\* direct recomputation, for comparison with the rolling results
RECURSIVE ProdRange(_, _, _)
ProdRange(r, lo, hi) ==
    IF lo > hi THEN F(1) ELSE FMul(FAdd(F(1), r[lo]), ProdRange(r, lo + 1, hi))

\* sum of (y_i - mean y)(x_i - mean x) over a window, divided by W - 1
DirectCovFrom(wy, wx, my, mx) ==
    FDiv(FSum(AsSeq([i \in 1..Len(wy) |-> FMul(FSub(wy[i], my), FSub(wx[i], mx))])),
         F(Len(wy) - 1))
DirectCov(wy, wx) == DirectCovFrom(wy, wx, Mean(wy), Mean(wx))

\* all observations of the window are equal: its variance is zero
Constant(w) == \A i, j \in 1..Len(w) : w[i] = w[j]

\* C2: rolling_period_return(r, W) at every position t >= W is the product
\* of (1 + r_i) for i = t-W+1..t, minus 1.
C2_PeriodReturnFormula ==
    HelperDone("rolling_period_return") =>
        \A t \in a_win..Len(a_y) :
            out[t] = FSub(ProdRange(a_y, t - a_win + 1, t), F(1))

C2_Witness ==
    /\ HelperDone("rolling_period_return")
    /\ a_win = 2
    /\ a_y[2] = F(1) /\ a_y[3] = F(1)
    /\ out[3] = F(3)

\* C3 as stated: for period return, correlation and beta with window W on a
\* complete series of length >= W, the first W-1 positions are undefined and
\* the W-th position is defined.
C3_Original ==
    (pc = "done"
     /\ fn \in {"rolling_period_return", "rolling_beta", "rolling_corr"}
     /\ a_win <= Len(a_y)) =>
        /\ \A t \in 1..(a_win - 1) : IsNaN(out[t])
        /\ NotNa(out[a_win])

\* C3 as amended: the first W-1 positions are NaN (not zero); the W-th
\* position of a period return is defined; the W-th position of a beta is
\* defined exactly when the benchmark is not constant over the first window,
\* and that of a correlation exactly when neither series is.
C3_WarmUp ==
    (pc = "done"
     /\ fn \in {"rolling_period_return", "rolling_beta", "rolling_corr"}
     /\ a_win <= Len(a_y)) =>
        /\ \A t \in 1..(a_win - 1) : IsNaN(out[t])
        /\ fn = "rolling_period_return" => IsFinite(out[a_win])
        /\ fn = "rolling_beta" =>
            (IsFinite(out[a_win]) <=> ~Constant(SubSeq(a_x, 1, a_win)))
        /\ fn = "rolling_beta" => (NotNa(out[a_win]) => IsFinite(out[a_win]))
        /\ fn = "rolling_corr" =>
            (IsFinite(out[a_win]) <=>
                ~Constant(SubSeq(a_x, 1, a_win)) /\ ~Constant(SubSeq(a_y, 1, a_win)))
        /\ fn = "rolling_corr" => (NotNa(out[a_win]) => IsFinite(out[a_win]))

C3_Witness ==
    /\ pc = "done"
    /\ fn = "rolling_corr"
    /\ a_win = 3
    /\ IsNaN(out[1]) /\ IsNaN(out[2])
    /\ IsFinite(out[3])

\* C4: rolling_beta(y, x, W) at every position with a full window is the
\* covariance of y and x divided by the variance of x, both over the same
\* trailing W observations.
C4_BetaIsCovOverVar ==
    HelperDone("rolling_beta") =>
        \A t \in a_win..Len(a_y) :
            out[t] = FDiv(DirectCov(Window(a_y, t, a_win), Window(a_x, t, a_win)),
                          DirectCov(Window(a_x, t, a_win), Window(a_x, t, a_win)))

C4_Witness ==
    /\ HelperDone("rolling_beta")
    /\ a_win = 2
    /\ a_y # a_x
    /\ IsFinite(out[2]) /\ IsFinite(out[3])
    /\ out[3] # F(0) /\ out[3] # F(1) /\ out[3] # out[2]

\* C5: a window in which the benchmark is constant has a NaN beta, and a
\* window in which either series is constant has a NaN correlation: never
\* zero, never an infinity.
C5_ZeroVarianceIsNaN ==
    /\ HelperDone("rolling_beta") =>
        \A t \in a_win..Len(a_y) :
            Constant(Window(a_x, t, a_win)) => IsNaN(out[t])
    /\ HelperDone("rolling_corr") =>
        \A t \in a_win..Len(a_y) :
            (Constant(Window(a_x, t, a_win)) \/ Constant(Window(a_y, t, a_win)))
                => IsNaN(out[t])

C5_Witness ==
    /\ HelperDone("rolling_beta")
    /\ a_win = 2
    /\ a_x[2] = a_x[3] /\ a_y[2] # a_y[3]
    /\ a_x[1] # a_x[2]
    /\ IsFinite(out[2]) /\ IsNaN(out[3])

\* C6: every defined entry of a rolling correlation lies in [-1, 1]; on the
\* signed square carried here that is the same interval.
C6_CorrBound ==
    HelperDone("rolling_corr") =>
        \A t \in 1..Len(out) :
            NotNa(out[t]) => FLeq(F(-1), out[t]) /\ FLeq(out[t], F(1))

C6_Witness ==
    /\ HelperDone("rolling_corr")
    /\ a_win = 3
    /\ IsFinite(out[3])
    /\ out[3] # F(0) /\ out[3] # F(1) /\ out[3] # F(-1)

\* C7: rolling_beta(r, r, W) is 1 wherever it is defined.
C7_BetaOfSelfIsOne ==
    (HelperDone("rolling_beta") /\ a_y = a_x) =>
        \A t \in 1..Len(out) : NotNa(out[t]) => out[t] = F(1)

C7_Witness ==
    /\ HelperDone("rolling_beta")
    /\ a_y = a_x
    /\ a_win = 3
    /\ out[3] = F(1)

IsRunningMax(levels, t) == \A i \in 1..t : FLeq(levels[i], levels[t])

DrawdownInvariant ==
    \A t \in 1..Len(a_y) :
        /\ NotNa(out[t])
        /\ FLeq(out[t], F(0))
        /\ IsRunningMax(a_y, t) => out[t] = F(0)

\* C9 as stated: for any level series the drawdown is defined at every
\* position, is <= 0 there, and is 0 wherever the level is the running
\* maximum.
C9_Original == HelperDone("drawdown") => DrawdownInvariant

\* C9 as amended: the same, for a level series whose first level is
\* positive.
C9_DrawdownInvariant ==
    (HelperDone("drawdown") /\ a_y[1][1] > 0) => DrawdownInvariant

C9_Witness ==
    /\ HelperDone("drawdown")
    /\ a_y[1][1] > 0
    /\ out[2] # F(0)
    /\ out[3] = F(0)

\* the position of date d in an index without duplicates
PosOf(index, d) == CHOOSE p \in DOMAIN index : index[p] = d

\* the compounded return over the W observations ending at position t,
\* NaN when fewer than W came before or one of them is not finite
DirectPeriodReturn(r, t, W) ==
    IF t >= W /\ \A i \in (t - W + 1)..t : IsFinite(r[i])
    THEN FSub(ProdRange(r, t - W + 1, t), F(1))
    ELSE NaN

DirectExcess(frame, asset, bench, t) ==
    FSub(DirectPeriodReturn(frame.cols[asset], t, ROLL_RET_WIN),
         DirectPeriodReturn(frame.cols[bench], t, ROLL_RET_WIN))

\* C8: each column of the excess-return table holds, at every date of the
\* table, the asset's rolling period return minus the benchmark's; the table
\* has exactly the dates on which at least one benchmark column is defined.
C8_ExcessTable ==
    HelperDone("compute_pairwise_metrics") =>
        /\ Columns(ex_gsox) = {ExcessName("GSOX", "SPX"), ExcessName("GSOX", "MXWO")}
        /\ \A j \in DOMAIN ex_gsox.index : \A b \in {"SPX", "MXWO"} :
            ex_gsox.cols[ExcessName("GSOX", b)][j] =
                DirectExcess(rets, "GSOX", b, PosOf(rets.index, ex_gsox.index[j]))
        /\ {ex_gsox.index[j] : j \in DOMAIN ex_gsox.index} =
            {rets.index[p] : p \in {q \in DOMAIN rets.index :
                \E b \in {"SPX", "MXWO"} : NotNa(DirectExcess(rets, "GSOX", b, q))}}
        /\ \A i, j \in DOMAIN ex_gsox.index : i < j => ex_gsox.index[i] < ex_gsox.index[j]

C8_Witness ==
    /\ HelperDone("compute_pairwise_metrics")
    /\ Len(ex_gsox.index) = 2
    /\ Len(rets.index) = 3
    /\ IsNaN(ex_gsox.cols[ExcessName("GSOX", "SPX")][1])
    /\ IsFinite(ex_gsox.cols[ExcessName("GSOX", "MXWO")][1])
    /\ IsFinite(ex_gsox.cols[ExcessName("GSOX", "SPX")][2])

MainAligned == fn = "main" /\ pc \in {"done", "KeyError"}

\* C1: when alignment succeeds, every column of the aligned panel has one
\* cell per retained date and none of the cells is missing.
C1_AlignmentComplete ==
    MainAligned =>
        \A c \in Columns(data) :
            /\ Len(data.cols[c]) = Len(data.index)
            /\ \A t \in DOMAIN data.index : NotNa(data.cols[c][t])

C1_Witness ==
    /\ fn = "main" /\ pc = "done"
    /\ Len(data.index) >= 2
    /\ \E b \in BBTickers : \E d \in DOMAIN raw[b].rows : IsNaN(raw[b].rows[d])
    /\ \E b \in BBTickers : \E j \in DOMAIN data.index :
            data.index[j] \notin DOMAIN raw[b].rows

\* v / first * 100 on two finite floats
DirectRebase(v, first) ==
    IF first[1] = 0 THEN (IF v[1] = 0 THEN NaN ELSE <<Sign(v[1]), 0>>)
    ELSE Norm(100 * v[1] * first[2], v[2] * first[1])

RebaseFormula ==
    /\ Columns(levels_rebased) = Columns(data)
    /\ levels_rebased.index = data.index
    /\ \A c \in Columns(data) : \A t \in DOMAIN data.index :
        levels_rebased.cols[c][t] = DirectRebase(data.cols[c][t], data.cols[c][1])

\* C10 as stated: in every column of every aligned panel the rebased value
\* at the first date is exactly 100, and the rebased value at date t is
\* v[t] / v[first] * 100.
C10_Original ==
    (MainAligned /\ Len(data.index) > 0) =>
        /\ \A c \in Columns(data) : levels_rebased.cols[c][1] = F(100)
        /\ RebaseFormula

\* C10 as amended: the rebased value at the first date is exactly 100 in
\* every column whose first value is not zero, and NaN in a column whose
\* first value is zero; the rebased value at date t is v[t] / v[first] * 100.
C10_Rebase ==
    (MainAligned /\ Len(data.index) > 0) =>
        /\ \A c \in Columns(data) :
            /\ data.cols[c][1] # F(0) => levels_rebased.cols[c][1] = F(100)
            /\ data.cols[c][1] = F(0) => IsNaN(levels_rebased.cols[c][1])
        /\ RebaseFormula

C10_Witness ==
    /\ fn = "main" /\ pc = "done"
    /\ Len(data.index) = 3
    /\ data.cols["GSOX"][1] = F(2)
    /\ levels_rebased.cols["GSOX"] = <<F(100), F(50), F(0)>>
    /\ levels_rebased.cols["SPX"][1] = F(100)
    /\ levels_rebased.cols["SPX"][2] = F(200)

\* (v - prev) / prev on two finite floats
DirectReturn(v, prev) ==
    IF prev[1] = 0 THEN (IF v[1] = 0 THEN NaN ELSE <<Sign(v[1]), 0>>)
    ELSE Norm(v[1] * prev[2] - prev[1] * v[2], v[2] * prev[1])

\* the sequence without its first entry, empty when the sequence is
DropFirst(index) == IF index = <<>> THEN <<>> ELSE Tail(index)

\* C11: for every aligned panel the dates of the returns table are the
\* panel's dates with only the first removed, and each column holds
\* (v[t] - v[t-1]) / v[t-1] at each date t after the first.
C11_Original ==
    MainAligned =>
        /\ Columns(rets) = Columns(data)
        /\ rets.index = DropFirst(data.index)
        /\ \A c \in Columns(data) : \A t \in 2..Len(data.index) :
            rets.cols[c][t - 1] = DirectReturn(data.cols[c][t], data.cols[c][t - 1])

\* C12: when the prior value of a column is exactly 0, the returns table has
\* a row for that date whose cell in the column is missing (not an infinity),
\* and the other columns hold their own returns on that date.
C12_Original ==
    MainAligned =>
        \A c \in Columns(data) : \A t \in 2..Len(data.index) :
            data.cols[c][t - 1] = F(0) =>
                \E j \in DOMAIN rets.index :
                    /\ rets.index[j] = data.index[t]
                    /\ IsNaN(rets.cols[c][j])
                    /\ \A o \in Columns(data) :
                        data.cols[o][t - 1] # F(0) =>
                            rets.cols[o][j] =
                                DirectReturn(data.cols[o][t], data.cols[o][t - 1])

\* main() has built the panel
MainPanelBuilt == fn = "main" /\ pc \in {"aligned", "done", "KeyError"}

\* the tickers whose series went into the panel
Included(r) == {b \in BBTickers : r[b].kind = "df" /\ DOMAIN r[b].rows # {}}

IsAlignmentCalendar(p, r) ==
    /\ \A i, j \in DOMAIN p.index : i < j => p.index[i] < p.index[j]
    /\ {p.index[i] : i \in DOMAIN p.index} =
            {d \in Dates : \E b \in Included(r) : d \in DOMAIN r[b].rows}
    /\ Columns(p) = {name_map[b] : b \in Included(r)}
    /\ \A b \in Included(r) : \A i \in DOMAIN p.index :
            p.cols[name_map[b]][i] =
                IF p.index[i] \in DOMAIN r[b].rows THEN r[b].rows[p.index[i]] ELSE NaN

SetMax(S) == CHOOSE x \in S : \A y \in S : y <= x
SetMin(S) == CHOOSE x \in S : \A y \in S : x <= y

ValidUpTo(s, i) == {q \in 1..i : NotNa(s[q])}
ValidFrom(s, i) == {q \in i..Len(s) : NotNa(s[q])}

\* the most recent non-missing value at or before position i if there is
\* one, else the earliest later one, else missing
FillVal(s, i) ==
    IF ValidUpTo(s, i) # {} THEN s[SetMax(ValidUpTo(s, i))]
    ELSE IF ValidFrom(s, i) # {} THEN s[SetMin(ValidFrom(s, i))]
    ELSE NaN

\* the positions of p whose row has no missing cell after the fill
FilledRows(p) ==
    {i \in DOMAIN p.index : \A c \in Columns(p) : NotNa(FillVal(p.cols[c], i))}

IsGapFilled(d, p) ==
    /\ Columns(d) = Columns(p)
    /\ \A i, j \in DOMAIN d.index : i < j => d.index[i] < d.index[j]
    /\ {d.index[j] : j \in DOMAIN d.index} = {p.index[i] : i \in FilledRows(p)}
    /\ \A c \in Columns(p) : \A j \in DOMAIN d.index :
            d.cols[c][j] = FillVal(p.cols[c], PosOf(p.index, d.index[j]))

\* C14: in each column of the aligned panel a missing cell holds the most
\* recent earlier value of the column if there is one and otherwise the
\* earliest later one; the rows that still have a missing cell are dropped.
C14_FillOrder == MainPanelBuilt => IsGapFilled(data, Joined(raw))

C14_Witness ==
    /\ fn = "main" /\ pc = "done"
    /\ raw[TICKERS["GSOX"]].rows = <<F(1), NaN, F(3)>>
    /\ data.cols["GSOX"] = <<F(1), F(1), F(3)>>
    /\ 1 \notin DOMAIN raw[TICKERS["SPX"]].rows
    /\ data.cols["SPX"] = <<F(2), F(2), F(2)>>

\* main() has run to its end or to an exception
MainEnded == fn = "main" /\ pc \notin {"call", "aligned"}

NothingProduced ==
    /\ data = NoFrame
    /\ levels_rebased = NoFrame
    /\ rets = NoFrame
    /\ m_gsox = NoMetrics
    /\ m_rgus = NoMetrics
    /\ dd = NoFrame

\* C15: when every requested ticker is absent from the fetch, None or empty,
\* main() ends in the error "No data available for any ticker." and has
\* produced no panel and no derived table.
C15_NoDataAvailable ==
    (fn = "main" /\ pc # "call" /\ Included(raw) = {}) =>
        (pc = "RuntimeError" /\ NothingProduced)

C15_Witness ==
    /\ fn = "main"
    /\ pc = "RuntimeError"
    /\ raw[TICKERS["GSOX"]] = NoneFrame
    /\ raw[TICKERS["SPX"]] = NotInRaw

\* C16: when some but not all of the requested tickers are absent, None or
\* empty (and no series repeats a date), main() runs to its end and produces
\* the panel and the derived tables from the remaining tickers.
C16_Original ==
    (/\ MainEnded
     /\ Included(raw) # {}
     /\ Included(raw) # BBTickers
     /\ \A b \in BBTickers : DOMAIN raw[b].dup = {}) =>
        /\ pc = "done"
        /\ Columns(data) = {name_map[b] : b \in Included(raw)}
        /\ Columns(dd) = Columns(data)

\* every observation of the W ending at position t is finite
WindowFinite(s, t, W) == \A i \in (t - W + 1)..t : IsFinite(s[i])

\* the statistics of section 4.3 at position t for window W, from the asset's
\* returns y and the benchmark's returns x alone; NaN before W observations
\* and on a window that holds an infinity
DirectExcessOf(y, x, t, W) ==
    FSub(DirectPeriodReturn(y, t, W), DirectPeriodReturn(x, t, W))

DirectBetaOf(y, x, t, W) ==
    IF t >= W /\ WindowFinite(y, t, W) /\ WindowFinite(x, t, W)
    THEN FDiv(DirectCov(Window(y, t, W), Window(x, t, W)),
              DirectCov(Window(x, t, W), Window(x, t, W)))
    ELSE NaN

\* cov^2 / (var_y var_x) with the sign of cov
DirectCorrFrom(c, vv) ==
    IF IsNaN(c) \/ IsNaN(vv) \/ vv[1] = 0 THEN NaN
    ELSE Norm(Sign(c[1]) * c[1] * c[1] * vv[2], c[2] * c[2] * vv[1])

DirectCorrOf(y, x, t, W) ==
    IF t >= W /\ WindowFinite(y, t, W) /\ WindowFinite(x, t, W)
    THEN DirectCorrFrom(DirectCov(Window(y, t, W), Window(x, t, W)),
                        FMul(DirectCov(Window(y, t, W), Window(y, t, W)),
                             DirectCov(Window(x, t, W), Window(x, t, W))))
    ELSE NaN

\* tbl is the table of the statistic Stat with window W of the asset against
\* SPX and MXWO: one column per benchmark, a row for each date on which one
\* of the two is defined
IsTableOf(tbl, frame, asset, Name(_, _), Stat(_, _, _, _), W) ==
    /\ Columns(tbl) = {Name(asset, b) : b \in {"SPX", "MXWO"}}
    /\ \A i, j \in DOMAIN tbl.index : i < j => tbl.index[i] < tbl.index[j]
    /\ {tbl.index[j] : j \in DOMAIN tbl.index} =
        {frame.index[p] : p \in {q \in DOMAIN frame.index :
            \E b \in {"SPX", "MXWO"} :
                NotNa(Stat(frame.cols[asset], frame.cols[b], q, W))}}
    /\ \A j \in DOMAIN tbl.index : \A b \in {"SPX", "MXWO"} :
        tbl.cols[Name(asset, b)][j] =
            Stat(frame.cols[asset], frame.cols[b], PosOf(frame.index, tbl.index[j]), W)

TablesOfWindows(m, frame, asset, w_ret, w_risk) ==
    /\ IsTableOf(m[1], frame, asset, ExcessName, DirectExcessOf, w_ret)
    /\ IsTableOf(m[2], frame, asset, CorrName, DirectCorrOf, w_risk)
    /\ IsTableOf(m[3], frame, asset, BetaName, DirectBetaOf, w_risk)

\* C17 as stated: whatever return window and risk window the caller wants
\* for a call, the call's tables are those of these windows.
C17_Original ==
    HelperDone("compute_pairwise_metrics") =>
        \A w_ret, w_risk \in 1..MaxWin :
            TablesOfWindows(m_gsox, rets, "GSOX", w_ret, w_risk)

\* C17 as amended: the call takes no windows; its excess-return table is
\* that of the module setting ROLL_RET_WIN and its correlation and beta
\* tables are those of the module setting ROLL_RISK_WIN.
C17_ModuleWindows ==
    HelperDone("compute_pairwise_metrics") =>
        TablesOfWindows(m_gsox, rets, "GSOX", ROLL_RET_WIN, ROLL_RISK_WIN)

C17_Witness ==
    /\ HelperDone("compute_pairwise_metrics")
    /\ Len(ex_gsox.index) >= 1
    /\ ex_gsox.index[1] = ROLL_RET_WIN
    /\ beta_gsox.index = <<ROLL_RISK_WIN>>
    /\ IsFinite(beta_gsox.cols[BetaName("GSOX", "SPX")][1])
    /\ beta_gsox.cols[BetaName("GSOX", "SPX")][1] # F(1)
    /\ corr_gsox.index = <<ROLL_RISK_WIN>>
    /\ IsFinite(corr_gsox.cols[CorrName("GSOX", "MXWO")][1])

TablesDone == pc = "done" /\ fn = "metric_tables"

\* the (asset, benchmark) pairs of the two calls
Pairs == {a_sym.asset_1, a_sym.asset_2} \X {a_sym.bench_a, a_sym.bench_b}

SymbolsUsed == {a_sym.asset_1, a_sym.asset_2, a_sym.bench_a, a_sym.bench_b}

\* the columns of the concatenated table are named by Name from the pairs
NamedBy(all, Name(_, _)) == DOMAIN all = {Name(p[1], p[2]) : p \in Pairs}

\* distinct pairs have distinct names and no name is on two columns
CollisionFree(all, Name(_, _)) ==
    /\ \A p, q \in Pairs : p # q => Name(p[1], p[2]) # Name(q[1], q[2])
    /\ \A c \in DOMAIN all : all[c] = 1

\* C18 as stated: whatever the symbols, the tables of two different assets
\* side by side have one column per pair, distinct pairs have distinct names
\* and no name is on two columns.
C18_Original ==
    TablesDone /\ a_sym.asset_1 # a_sym.asset_2 =>
        /\ NamedBy(out.ex_all, ExcessName) /\ CollisionFree(out.ex_all, ExcessName)
        /\ NamedBy(out.corr_all, CorrName) /\ CollisionFree(out.corr_all, CorrName)
        /\ NamedBy(out.beta_all, BetaName) /\ CollisionFree(out.beta_all, BetaName)

\* C18 as amended: the column names are functions of the pair; the tables of
\* two different assets side by side are free of collisions in the excess
\* table when no symbol holds a hyphen, and in the correlation and beta
\* tables when no symbol holds a comma.
C18_CollisionFreeSymbols ==
    TablesDone /\ a_sym.asset_1 # a_sym.asset_2 =>
        /\ NamedBy(out.ex_all, ExcessName)
        /\ NamedBy(out.corr_all, CorrName)
        /\ NamedBy(out.beta_all, BetaName)
        /\ SymbolsUsed \subseteq NoHyphen => CollisionFree(out.ex_all, ExcessName)
        /\ SymbolsUsed \subseteq NoComma =>
            /\ CollisionFree(out.corr_all, CorrName)
            /\ CollisionFree(out.beta_all, BetaName)

C18_Witness ==
    /\ TablesDone
    /\ a_sym = [asset_1 |-> "GSOX", asset_2 |-> "RGUSTSC",
                bench_a |-> "SPX", bench_b |-> "MXWO"]
    /\ DOMAIN out.ex_all =
        {"GSOX-vs-SPX", "GSOX-vs-MXWO", "RGUSTSC-vs-SPX", "RGUSTSC-vs-MXWO"}
    /\ DOMAIN out.corr_all =
        {"Corr(GSOX,SPX)", "Corr(GSOX,MXWO)", "Corr(RGUSTSC,SPX)", "Corr(RGUSTSC,MXWO)"}
    /\ \A c \in DOMAIN out.beta_all : out.beta_all[c] = 1

\* the value of column name of tbl on date d: a date without a row has none
ValueOn(tbl, name, d) ==
    IF \E j \in DOMAIN tbl.index : tbl.index[j] = d
    THEN tbl.cols[name][PosOf(tbl.index, d)]
    ELSE NaN

\* the returns table with other data in column c
WithData(frame, c, s) == DataFrame(frame.index, [frame.cols EXCEPT ![c] = s])

\* other data for a benchmark: all of it infinite, so that none of its
\* statistics is defined.  Two returns tables that differ in one benchmark's
\* data only become the same table when that data is replaced by this, so
\* columns that survive the replacement in every table are the same in both.
OtherData(n) == AsSeq([i \in 1..n |-> PosInf])

\* the metrics m and n hold the same values in the columns of bench
SameColumnsOf(m, n, asset, bench, dates) ==
    \A d \in dates :
        /\ ValueOn(m[1], ExcessName(asset, bench), d) = ValueOn(n[1], ExcessName(asset, bench), d)
        /\ ValueOn(m[2], CorrName(asset, bench), d) = ValueOn(n[2], CorrName(asset, bench), d)
        /\ ValueOn(m[3], BetaName(asset, bench), d) = ValueOn(n[3], BetaName(asset, bench), d)

DatesOf(frame) == {frame.index[i] : i \in DOMAIN frame.index}

\* C19: each of the three tables has exactly one column per benchmark; the
\* values of a benchmark's columns are the statistics of the asset and this
\* benchmark, and they are the same after a call on returns that differ in
\* the other benchmark's data only.
C19_ColumnPerBenchmark ==
    HelperDone("compute_pairwise_metrics") =>
        /\ Columns(ex_gsox) = {ExcessName("GSOX", "SPX"), ExcessName("GSOX", "MXWO")}
        /\ Columns(corr_gsox) = {CorrName("GSOX", "SPX"), CorrName("GSOX", "MXWO")}
        /\ Columns(beta_gsox) = {BetaName("GSOX", "SPX"), BetaName("GSOX", "MXWO")}
        /\ \A k \in 1..3 : Cardinality(Columns(m_gsox[k])) = 2
        /\ \A b \in {"SPX", "MXWO"} : \A p \in DOMAIN rets.index :
            /\ ValueOn(ex_gsox, ExcessName("GSOX", b), rets.index[p]) =
                DirectExcessOf(rets.cols["GSOX"], rets.cols[b], p, ROLL_RET_WIN)
            /\ ValueOn(corr_gsox, CorrName("GSOX", b), rets.index[p]) =
                DirectCorrOf(rets.cols["GSOX"], rets.cols[b], p, ROLL_RISK_WIN)
            /\ ValueOn(beta_gsox, BetaName("GSOX", b), rets.index[p]) =
                DirectBetaOf(rets.cols["GSOX"], rets.cols[b], p, ROLL_RISK_WIN)
        /\ SameColumnsOf(m_gsox,
                compute_pairwise_metrics(WithData(rets, "MXWO", OtherData(Len(rets.index))),
                                         "GSOX", "SPX", "MXWO"),
                "GSOX", "SPX", DatesOf(rets))
        /\ SameColumnsOf(m_gsox,
                compute_pairwise_metrics(WithData(rets, "SPX", OtherData(Len(rets.index))),
                                         "GSOX", "SPX", "MXWO"),
                "GSOX", "MXWO", DatesOf(rets))

\* a row of the beta table on which only the SPX column has a value, its
\* correlation and excess return are defined too
C19_Witness ==
    /\ HelperDone("compute_pairwise_metrics")
    /\ Len(beta_gsox.index) = 1
    /\ IsFinite(beta_gsox.cols[BetaName("GSOX", "SPX")][1])
    /\ IsNaN(beta_gsox.cols[BetaName("GSOX", "MXWO")][1])
    /\ IsFinite(ValueOn(corr_gsox, CorrName("GSOX", "SPX"), beta_gsox.index[1]))
    /\ IsFinite(ValueOn(ex_gsox, ExcessName("GSOX", "SPX"), beta_gsox.index[1]))

\* C20: a call of drawdown, rolling_beta, rolling_period_return or of the
\* rolling correlation leaves its series and window arguments as they were,
\* compute_pairwise_metrics leaves the returns table as it was, and main()
\* leaves the fetched frames as they were and, once the panel is aligned,
\* computes the rebased levels, returns, metrics and drawdowns without
\* changing the panel.
C20_NoInputMutation ==
    [][/\ fn \in {"drawdown", "rolling_beta", "rolling_period_return", "rolling_corr"} =>
            a_y' = a_y /\ a_x' = a_x /\ a_win' = a_win
       /\ fn = "compute_pairwise_metrics" => rets' = rets
       /\ fn = "main" => raw' = raw
       /\ fn = "main" /\ pc = "aligned" => data' = data]_vars

\* main() has derived every table from a panel of several dates, and the
\* tables differ from the panel, which is still aligned
C20_Witness ==
    /\ fn = "main" /\ pc = "done"
    /\ Len(data.index) = NDates
    /\ data = Align(raw)
    /\ levels_rebased # data
    /\ Len(rets.index) = NDates - 1
    /\ Len(ex_gsox.index) >= 1
    /\ \E c \in Columns(dd) : \E i \in DOMAIN dd.index : dd.cols[c][i] # F(0)

\* peak[1] = level[1], peak[t] = max(peak[t-1], level[t])
RECURSIVE PeakAt(_, _)
PeakAt(levels, t) ==
    IF t = 1 THEN levels[1] ELSE FMax(PeakAt(levels, t - 1), levels[t])

\* C21: drawdown(levels)[t] is level[t] / peak[t] - 1 for the peaks of the
\* recurrence, these are the running maximum the code divides by, and they
\* never decrease.
C21_DrawdownRecurrence ==
    HelperDone("drawdown") =>
        /\ Len(out) = Len(a_y)
        /\ \A t \in 1..Len(a_y) :
            /\ out[t] = FSub(FDiv(a_y[t], PeakAt(a_y, t)), F(1))
            /\ cummax(a_y)[t] = PeakAt(a_y, t)
        /\ \A t \in 2..Len(a_y) : FLeq(cummax(a_y)[t - 1], cummax(a_y)[t])

\* levels 1, 2, 1: a new peak at the second position, a fall of one half
\* from it at the third
C21_Witness ==
    /\ HelperDone("drawdown")
    /\ Len(a_y) >= 3
    /\ a_y[1] = F(1) /\ a_y[2] = F(2) /\ a_y[3] = F(1)
    /\ out[1] = F(0) /\ out[2] = F(0) /\ out[3] = Norm(-1, 2)

IsHistMsg(m) == m.mtype = "HistoricalDataResponse"

\* the HistoricalDataResponse messages of the partial and final responses
\* among the first n events, in order of arrival
RECURSIVE ResponseMsgs(_, _)
ResponseMsgs(evs, n) ==
    IF n = 0 THEN <<>>
    ELSE ResponseMsgs(evs, n - 1) \o
         (IF evs[n].type \in {"PARTIAL_RESPONSE", "RESPONSE"}
          THEN SelectSeq(evs[n].msgs, IsHistMsg) ELSE <<>>)

NoResponseBefore(evs, n) == \A i \in 1..(n - 1) : evs[i].type # "RESPONSE"

\* the messages of an event up to the first HistoricalDataResponse without
\* rows
RECURSIVE UpToNoRows(_, _)
UpToNoRows(msgs, i) ==
    IF i > Len(msgs) \/ (IsHistMsg(msgs[i]) /\ msgs[i].rows = <<>>) THEN <<>>
    ELSE <<msgs[i]>> \o UpToNoRows(msgs, i + 1)

\* C23: historical_request has processed, in order of arrival, the messages
\* of every partial response it was handed; it has returned exactly when the
\* last event handed to it is the first RESPONSE event, with that event's
\* messages processed too; while no RESPONSE event has been handed to it, it
\* has not returned, whatever other events came.  (A call that KeyError ended
\* has not returned: it stopped inside a response event, at a message without
\* rows.)
C23_EventLoop ==
    fn = "historical_request" =>
        /\ n_seen <= Len(events)
        /\ pc = "call" => n_seen = 0 /\ handled = <<>>
        /\ pc = "wait" =>
            /\ NoResponseBefore(events, n_seen + 1)
            /\ handled = ResponseMsgs(events, n_seen)
        /\ pc = "done" =>
            /\ n_seen >= 1
            /\ events[n_seen].type = "RESPONSE"
            /\ NoResponseBefore(events, n_seen)
            /\ handled = ResponseMsgs(events, n_seen)
        /\ pc = "KeyError" =>
            /\ n_seen >= 1
            /\ NoResponseBefore(events, n_seen)
            /\ events[n_seen].type \in {"PARTIAL_RESPONSE", "RESPONSE"}
            /\ \E i \in DOMAIN events[n_seen].msgs :
                IsHistMsg(events[n_seen].msgs[i]) /\ events[n_seen].msgs[i].rows = <<>>
            /\ handled = ResponseMsgs(events, n_seen - 1)
                            \o SelectSeq(UpToNoRows(events[n_seen].msgs, 1), IsHistMsg)

\* returned after an event of another type, a partial response of two
\* messages and the final response
C23_Witness ==
    /\ HelperDone("historical_request")
    /\ n_seen = 3
    /\ events[1].type = "SESSION_STATUS"
    /\ events[2].type = "PARTIAL_RESPONSE"
    /\ Len(events[2].msgs) = 2
    /\ events[3].type = "RESPONSE"
    /\ Len(handled) = 3

\* the position of the last message for the security among msgs
LastFor(msgs, sec) ==
    CHOOSE i \in DOMAIN msgs :
        /\ msgs[i].security = sec
        /\ \A j \in DOMAIN msgs : j > i => msgs[j].security # sec

\* df holds exactly the rows given, in ascending order of date
IsSortedRowsOf(df, rows) ==
    /\ Len(df) = Len(rows)
    /\ {df[i] : i \in DOMAIN df} = {rows[i] : i \in DOMAIN rows}
    /\ \A i, j \in DOMAIN df : i < j => df[i][1] < df[j][1]

\* the returned mapping given the messages processed
IsLastMessageMap(o, msgs) ==
    /\ DOMAIN o = {msgs[i].security : i \in DOMAIN msgs}
    /\ \A sec \in DOMAIN o : IsSortedRowsOf(o[sec], msgs[LastFor(msgs, sec)].rows)

\* C28: the mapping historical_request returns has one entry for each
\* security of a HistoricalDataResponse message in the partial and final
\* responses, and the entry holds the rows of the last such message for the
\* security and no others, in ascending order of date.
C28_LastMessageWins ==
    HelperDone("historical_request") =>
        IsLastMessageMap(out, ResponseMsgs(events, n_seen))

\* GSOX came in a partial response and again, with other rows, in the final
\* one: the entry has the later rows only
C28_Witness ==
    /\ HelperDone("historical_request")
    /\ n_seen = 2
    /\ events[1] = Event("PARTIAL_RESPONSE", <<MsgGsox>>)
    /\ events[2] = Event("RESPONSE", <<MsgGsoxLater>>)
    /\ DOMAIN out = {"GSOX Index"}
    /\ out["GSOX Index"] = <<<<2, NaN>>, <<3, F(2)>>>>

\* ---------------------------------------------------------------- C22

FetchOver == fn = "main" /\ service # <<>> /\ pc \notin {"fetch", "fallback"}

\* the tickers whose total-return response is absent or has no non-missing row
NoTotalReturn == {t \in BBTickers : service[tr_field][t] # "data"}

\* the tickers that have data under neither field
NoDataAtAll ==
    {t \in BBTickers : service[tr_field][t] # "data" /\ service[base_field][t] # "data"}

Faulted == pc \in {"KeyError", "RuntimeError", "InvalidIndexError"}

C22_Rerequested ==
    NoTotalReturn # {} =>
        \E i \in DOMAIN sent : i >= 2 /\ sent[i] = Request(NoTotalReturn, <<base_field>>)

C22_ValueColumn ==
    \A t \in BBTickers :
        (raw # <<>> /\ raw[t].kind = "df") =>
            ValCol(raw[t], USE_TOTAL_RETURN) =
                (IF service[tr_field][t] = "data" THEN tr_field ELSE base_field)

\* C22: with total return selected, every ticker without total-return data
\* is asked for again with PX_LAST, each frame's value column is the
\* total-return field if the frame has it and PX_LAST otherwise, and a ticker
\* still without data is left out without main() ending in an exception.
C22_Original ==
    (FetchOver /\ USE_TOTAL_RETURN) =>
        /\ C22_Rerequested
        /\ ~Faulted => C22_ValueColumn
        /\ NoDataAtAll # {} => ~Faulted

\* the parts taken alone, for the runs in which no response is without rows
C22_NoRowlessAnswer ==
    \A f \in {base_field, tr_field} : \A t \in BBTickers : service[f][t] # "norows"

C22_RerequestedUnlessRowless ==
    (FetchOver /\ USE_TOTAL_RETURN /\ C22_NoRowlessAnswer) => C22_Rerequested

C22_ValueColumnHolds ==
    (FetchOver /\ USE_TOTAL_RETURN /\ pc # "KeyError") => C22_ValueColumn

\* ---------------------------------------------------------------- C25

\* the joined panel after ffill().bfill(), before the drop
Filled(r) == bfill(ffill(Joined(r)))

HasNa(s) == \E t \in DOMAIN s : IsNaN(s[t])
AllNa(s) == \A t \in DOMAIN s : IsNaN(s[t])

\* C25: after the forward fill and the backward fill a column of the panel
\* has a missing cell only if the joined column has no value at all, and the
\* drop keeps either every date of the joined calendar or none of them.
C25_AllOrNothing ==
    MainPanelBuilt =>
        /\ \A c \in Columns(Joined(raw)) :
                HasNa(Filled(raw).cols[c]) => AllNa(Joined(raw).cols[c])
        /\ data.index = Joined(raw).index \/ data.index = <<>>

\* a column starts with a gap and a column ends with one, and every date is
\* kept
C25_Witness ==
    /\ MainPanelBuilt
    /\ Len(Joined(raw).index) = NDates
    /\ \E c \in Columns(Joined(raw)) :
            IsNaN(Joined(raw).cols[c][1]) /\ ~AllNa(Joined(raw).cols[c])
    /\ \E c \in Columns(Joined(raw)) :
            IsNaN(Joined(raw).cols[c][NDates]) /\ ~AllNa(Joined(raw).cols[c])
    /\ Len(data.index) = NDates

\* ---------------------------------------------------------------- C26

\* the operation has returned or has let an exception out
SessionEnded ==
    fn \in Operations /\ pc \in {"returned", "raised", "RuntimeError", "KeyError"}

\* C26: a session whose start() succeeded is stopped by the time the
\* operation that opened it returns or lets an exception out, and every
\* request was sent on a session that was open and not stopped.
C26_Original ==
    /\ SessionEnded => sess \in {"none", "stopped"}
    /\ \A i \in DOMAIN sent : sent[i].session = "open"

\* the part of it that the code keeps: the normal return and an exception
\* inside a try block leave the session stopped, and no request goes to a
\* stopped session
C26_StoppedOnReturn ==
    /\ (fn \in Operations /\ pc \in {"returned", "raised"}) => sess = "stopped"
    /\ \A i \in DOMAIN sent : sent[i].session = "open"

\* ---------------------------------------------------------------- C27

\* the requests whose final RESPONSE is still in the queue
Outstanding ==
    {i \in DOMAIN sent :
        \E k \in DOMAIN events : events[k] = QueuedEvent("RESPONSE", sent[i].cid)}

\* C27: at most one request is outstanding, a request is sent only when no
\* event of an earlier request is left in the queue, and every response event
\* consumed belongs to the request sent last.
C27_Sequential ==
    (fn \in Operations /\ pc \in {"start", "openService", "body", "wait",
                                   "returned", "raised", "RuntimeError", "KeyError"}) =>
        /\ Cardinality(Outstanding) <= 1
        /\ pc = "body" => \A k \in DOMAIN events : events[k].cid = 0
        /\ \A j \in DOMAIN handled : handled[j].cid = handled[j].latest

\* the second request is being answered after the first took a partial
\* response and an event of another kind
C27_Witness ==
    /\ fn = "fetch_supply_chain" /\ pc = "wait"
    /\ Len(sent) = 2
    /\ Len(handled) >= 3
    /\ n_seen > Len(handled) + 2
    /\ \E j \in DOMAIN handled : handled[j].cid = 2

\* ---------------------------------------------------------------- C24

EnrichDone == fn \in EnrichOps /\ pc = "done"

NotSpace(ch) == ch # " "

\* a missing cell, or a text of blanks only
Blank(cell) == cell.na \/ SelectSeq(cell.text, NotSpace) = <<>>

\* the related key of the frame: 'Equity Ticker' if present, else the name
RelatedKeyCol ==
    IF "Equity Ticker" \in customer_df.columns THEN "Equity Ticker" ELSE NameCol(fn)

\* the rows whose base ticker and related key are both there and non-blank
RequestRows ==
    {i \in DOMAIN customer_df.rows :
        /\ BaseCol(fn) \in customer_df.columns
        /\ RelatedKeyCol \in customer_df.columns
        /\ ~Blank(customer_df.rows[i][BaseCol(fn)])
        /\ ~Blank(customer_df.rows[i][RelatedKeyCol])}

\* the place of row i among the rows with a request
RankOf(i) == Cardinality({j \in RequestRows : j <= i})

\* C24: the enrichment returns the input rows in the input order, each with
\* the five enrichment columns added; the rows whose base ticker and related
\* key ('Equity Ticker' if the frame has it, else the name) are non-blank get
\* one request each, in row order, and the values of its answer; every other
\* row gets five None and no request.
C24_RowPreserving ==
    EnrichDone =>
        /\ Cardinality(EnrichCols(fn)) = 5
        /\ out.columns = customer_df.columns \cup EnrichCols(fn)
        /\ Len(out.rows) = Len(customer_df.rows)
        /\ \A i \in DOMAIN customer_df.rows : \A c \in customer_df.columns :
                out.rows[i][c] = customer_df.rows[i][c]
        /\ Len(sent) = Cardinality(RequestRows)
        /\ \A i \in DOMAIN customer_df.rows :
                IF i \in RequestRows
                THEN /\ sent[RankOf(i)].base =
                            SelectSeq(customer_df.rows[i][BaseCol(fn)].text, NotSpace)
                     /\ sent[RankOf(i)].related =
                            SelectSeq(customer_df.rows[i][RelatedKeyCol].text, NotSpace)
                     /\ \A c \in EnrichCols(fn) : out.rows[i][c] = service[c]
                ELSE \A c \in EnrichCols(fn) : out.rows[i][c] = NaCell

\* two rows with all three columns: the first has no 'Equity Ticker'
\* beside a name and gets no request, the second gets the one request
C24_Witness ==
    /\ EnrichDone
    /\ customer_df.columns = {BaseCol(fn), NameCol(fn), "Equity Ticker"}
    /\ Len(customer_df.rows) = 2
    /\ customer_df.rows[1]["Equity Ticker"] = NaCell
    /\ ~Blank(customer_df.rows[1][NameCol(fn)])
    /\ ~Blank(customer_df.rows[1][BaseCol(fn)])
    /\ sent = <<EnrichRequest(<<"T">>, <<"E">>)>>
    /\ service # NoneVals(fn)
    /\ out.rows[1]["relationship_amount_usd"] = NaCell
    /\ out.rows[2]["relationship_amount_usd"] = Text(<<"1">>)

====
